---- MODULE Spec2Model ----
(***************************************************************************)
(* Component tables of the ECS storage core.                               *)
(*                                                                         *)
(* ComponentTable (dense, swap-remove) and StableComponentTable (paged,    *)
(* tombstones, pack) are modelled as state machines over the fields of the *)
(* classes.  One behaviour drives one table: `kind` is chosen when the     *)
(* table is constructed and never changes.  Indices are 0-based as in the  *)
(* source; a sequence s is read at index i as s[i + 1].                    *)
(***************************************************************************)
EXTENDS Integers, Sequences, FiniteSets, TLC

(***************************************************************************)
(* Bounds of the model.                                                    *)
(***************************************************************************)
\* Width of Entity / EntityIndex.  The source uses 32 bits; the arithmetic
\* that can wrap (the `--last` / `last + 1` of removeRange and pack, the
\* `++_lastEntity` of the entity allocator) is kept modulo 2^ModelBitCount.
ModelBitCount == 3
\* Entities handed to the operations are 0 .. MaxEntity - 1.
MaxEntity == 3
\* Component values are 1 .. MaxValue.
MaxValue == 2
\* Width of a page of the sparse index (template parameter EntityPageSize).
EntityPageSize == 4
\* Width of a component page of the stable table (template parameter
\* ComponentPageSize).
ComponentPageSize == 2
\* The stable table is not grown beyond MaxSlots slots.
MaxSlots == 3

EntityModulus == 2 ^ ModelBitCount

NullEntityIndex == EntityModulus - 1

NullEntity == EntityModulus - 1

Entities == 0 .. (MaxEntity - 1)

Values == 1 .. MaxValue

\* The scenario of the specification's seed cases adds the entities
\* 1 .. ScenarioEntities to a stable table.
ScenarioEntities == 5

\* Keys of the sparse index.
Keys == Entities \cup (1 .. ScenarioEntities) \cup {NullEntity}

\* EntityRange { begin, end }: the non-empty half-open ranges the operations
\* are given.
EntityRanges == { r \in [begin : 0 .. MaxEntity, end : 0 .. MaxEntity] : r.begin < r.end }

VARIABLES
    kind,            \* "dense" (ComponentTable) or "stable" (StableComponentTable)
    indexSet,        \* _indexSet: key -> index, NullEntityIndex when unset
    indexPages,      \* _indexSet: the page indexes that are allocated
    entities,        \* _entities
    components,      \* _components (dense table)
    componentPages,  \* _componentPages (stable table)
    tombstones,      \* _tombstones (stable table)
    written,         \* history: the value last written by add / tryAdd for each
                     \* entity of the table, 0 for the entities that are not in it
    lastOp,          \* history: the operation that produced this state
    systemLastEntity, \* ASystem::_lastEntity
    freeEntities,    \* ASystem::_freeEntities
    live             \* history: the ids add / addRange returned that were not
                     \* released since

vars == << kind, indexSet, indexPages, entities, components, componentPages,
           tombstones, written, lastOp, systemLastEntity, freeEntities, live >>

\* The fields of the entity allocator and its history.
system == << systemLastEntity, freeEntities, live >>

\* The fields of a table and its history.
table == << indexSet, indexPages, entities, components, componentPages,
            tombstones, written >>

(***************************************************************************)
(* Small helpers on sequences (Core::Vector).                              *)
(***************************************************************************)
\* s.at(i), 0-based.
At(s, i) == s[i + 1]

\* s.at(i) = v, 0-based.
SetAt(s, i, v) == [s EXCEPT ![i + 1] = v]

\* s.erase(s.begin() + from, s.end())
EraseFrom(s, from) == SubSeq(s, 1, from)

\* s.pop()
Pop(s) == SubSeq(s, 1, Len(s) - 1)

\* _entities.find(entity): the first position holding entity, Len(s) for end().
Find(s, entity) ==
    IF \E i \in 0 .. (Len(s) - 1) : At(s, i) = entity
    THEN CHOOSE i \in 0 .. (Len(s) - 1) :
            /\ At(s, i) = entity
            /\ \A j \in 0 .. (i - 1) : At(s, j) # entity
    ELSE Len(s)

\* A decrement that stops at 0 instead of wrapping around.
DecSaturating(x) == IF x = 0 THEN 0 ELSE x - 1

\* 32-bit unsigned decrement and increment, at the model's width.
Dec(x) == (x - 1 + EntityModulus) % EntityModulus

Inc(x) == (x + 1) % EntityModulus

(***************************************************************************)
(* The sparse index (Core::SparseSet<Entity, EntityPageSize, ...,          *)
(* EntityIndex, EntityIndexInitializer>).  A table value t is a record of  *)
(* the table's fields; every operator returns the new table value.         *)
(***************************************************************************)
GetPageIndex(key) == key \div EntityPageSize

\* _indexSet.pageExists(key)
SparsePageExists(t, key) == GetPageIndex(key) \in t.indexPages

\* _indexSet.at(key)
SparseAt(t, key) == t.indexSet[key]

\* _indexSet.at(key) = value
SparseAssign(t, key, value) == [t EXCEPT !.indexSet[key] = value]

\* _indexSet.add(key, value): the page is materialized, the slot is set.
SparseAdd(t, key, value) ==
    [t EXCEPT !.indexSet[key] = value,
              !.indexPages = @ \cup {GetPageIndex(key)}]

\* _indexSet.remove(key): the slot is reset to the initializer's value.
SparseRemove(t, key) == [t EXCEPT !.indexSet[key] = NullEntityIndex]

\* _indexSet.extract(key): the value of `at` before the slot is reset by
\* SparseRemove.
SparseExtractValue(t, key) == t.indexSet[key]

\* _indexSet.clearUnsafe(): every allocated page is re-initialized.
SparseClearUnsafe(t) == [t EXCEPT !.indexSet = [k \in Keys |-> NullEntityIndex]]

\* _indexSet.releaseUnsafe(): every page is dropped.
SparseReleaseUnsafe(t) ==
    [t EXCEPT !.indexSet = [k \in Keys |-> NullEntityIndex],
              !.indexPages = {}]

(***************************************************************************)
(* The table value read from, and written to, the variables.               *)
(***************************************************************************)
Self ==
    [ indexSet |-> indexSet, indexPages |-> indexPages, entities |-> entities,
      components |-> components, componentPages |-> componentPages,
      tombstones |-> tombstones ]

Store(t) ==
    /\ indexSet' = t.indexSet
    /\ indexPages' = t.indexPages
    /\ entities' = t.entities
    /\ components' = t.components
    /\ componentPages' = t.componentPages
    /\ tombstones' = t.tombstones

\* The table after construction.
EmptyTable ==
    [ indexSet |-> [k \in Keys |-> NullEntityIndex], indexPages |-> {},
      entities |-> << >>, components |-> << >>, componentPages |-> << >>,
      tombstones |-> << >> ]

\* The history `written` once the entities of S have left the table.
Forget(S) == [e \in Entities |-> IF e \in S THEN 0 ELSE written[e]]

\* The history record of an operation: its name, its arguments (e, x), a
\* quantity n of the state it ran in and its result ret.
Op(name, e, x, n, ret) == [ op |-> name, e |-> e, x |-> x, n |-> n, ret |-> ret ]

(***************************************************************************)
(* ComponentTable (dense).                                                 *)
(***************************************************************************)
\* count()
count(t) == Len(t.entities)

\* exists(entity)
exists(t, entity) == Find(t.entities, entity) # Len(t.entities)

\* findIndex(entity)
findIndex(t, entity) ==
    IF Find(t.entities, entity) # Len(t.entities)
    THEN Find(t.entities, entity)
    ELSE NullEntityIndex

\* get(entity)
get(t, entity) == At(t.components, SparseAt(t, entity))

\* getUnstableIndex(entity)
getUnstableIndex(t, entity) ==
    IF SparsePageExists(t, entity) THEN SparseAt(t, entity) ELSE NullEntityIndex

\* addImpl(entity, args...)
addImpl(t, entity, value) ==
    LET componentIndex == Len(t.entities)
        t1 == SparseAdd(t, entity, componentIndex)
    IN  [t1 EXCEPT !.entities = Append(@, entity),
                   !.components = Append(@, value)]

\* add(entity, args...), called with an entity that is not in the table.
add(t, entity, value) == addImpl(t, entity, value)

\* Mutant of tryAdd: the component is added without looking for the entity.
tryAddAlwaysAdds(t, entity, value) == addImpl(t, entity, value)

\* tryAdd(entity, component&&)
tryAdd(t, entity, value) ==
    IF findIndex(t, entity) # NullEntityIndex
    THEN [t EXCEPT !.components = SetAt(@, SparseAt(t, entity), value)]
    ELSE addImpl(t, entity, value)

\* addRange(range, args...): entities, then indexes, then components.
addRange(t, range, value) ==
    LET lastIndex == Len(t.entities)
        cnt == range.end - range.begin
        newEntities == [i \in 1 .. cnt |-> range.begin + (i - 1)]
        newIndexSet == [k \in Keys |->
                            IF k >= range.begin /\ k < range.end
                            THEN lastIndex + (k - range.begin)
                            ELSE t.indexSet[k]]
        newPages == t.indexPages \cup
                        { GetPageIndex(k) : k \in range.begin .. (range.end - 1) }
    IN  [t EXCEPT !.entities = @ \o newEntities,
                  !.indexSet = newIndexSet,
                  !.indexPages = newPages,
                  !.components = @ \o [i \in 1 .. cnt |-> value]]

\* Mutant of removeImpl: the sparse index of the moved entity is not patched.
removeImplNoIndexFix(t, entity, entityIndex) ==
    LET t1 == IF Len(t.components) # entityIndex + 1
              THEN LET lastEntity == At(t.entities, Len(t.entities) - 1)
                   IN  [t EXCEPT !.entities = SetAt(@, entityIndex, lastEntity),
                                 !.components = SetAt(@, entityIndex,
                                        At(t.components, Len(t.components) - 1))]
              ELSE t
        t2 == SparseRemove(t1, entity)
    IN  [t2 EXCEPT !.entities = Pop(@), !.components = Pop(@)]

\* Mutant of removeImpl: the last component is not moved into the hole.
removeImplNoComponentMove(t, entity, entityIndex) ==
    LET t1 == IF Len(t.components) # entityIndex + 1
              THEN LET lastEntity == At(t.entities, Len(t.entities) - 1)
                       s1 == SparseAssign(t, lastEntity, entityIndex)
                   IN  [s1 EXCEPT !.entities = SetAt(@, entityIndex, lastEntity)]
              ELSE t
        t2 == SparseRemove(t1, entity)
    IN  [t2 EXCEPT !.entities = Pop(@), !.components = Pop(@)]

\* Mutant of removeImpl: the position is erased and the tail is shifted down.
removeImplErase(t, entity, entityIndex) ==
    LET ents == SubSeq(t.entities, 1, entityIndex) \o
                SubSeq(t.entities, entityIndex + 2, Len(t.entities))
        comps == SubSeq(t.components, 1, entityIndex) \o
                 SubSeq(t.components, entityIndex + 2, Len(t.components))
        t1 == SparseRemove(t, entity)
    IN  [t1 EXCEPT !.entities = ents,
                   !.components = comps,
                   !.indexSet = [k \in Keys |->
                        IF \E i \in 1 .. Len(ents) : ents[i] = k
                        THEN (CHOOSE i \in 1 .. Len(ents) : ents[i] = k) - 1
                        ELSE t1.indexSet[k]]]

\* removeImpl(entity, entityIndex)
removeImpl(t, entity, entityIndex) ==
    LET t1 == IF Len(t.components) # entityIndex + 1
              THEN LET lastEntity == At(t.entities, Len(t.entities) - 1)
                       s1 == SparseAssign(t, lastEntity, entityIndex)
                   IN  [s1 EXCEPT !.entities = SetAt(@, entityIndex, lastEntity),
                                  !.components = SetAt(@, entityIndex,
                                        At(t.components, Len(t.components) - 1))]
              ELSE t
        t2 == SparseRemove(t1, entity)
    IN  [t2 EXCEPT !.entities = Pop(@), !.components = Pop(@)]

\* remove(entity): removeImpl(entity, _indexSet.extract(entity))
remove(t, entity) ==
    removeImpl(SparseRemove(t, entity), entity, SparseExtractValue(t, entity))

\* Mutant of tryRemove: the table is left as it is.
tryRemoveNoOp(t, entity) == t

\* tryRemove(entity): the table after the call (the result is tryRemoveResult).
tryRemove(t, entity) ==
    IF findIndex(t, entity) # NullEntityIndex
    THEN removeImpl(t, entity, findIndex(t, entity))
    ELSE t

tryRemoveResult(t, entity) == findIndex(t, entity) # NullEntityIndex

\* extract(entity): the value moved out of the table.
extractValue(t, entity) == At(t.components, SparseExtractValue(t, entity))

\* extract(entity): the table after the call.
extract(t, entity) ==
    LET componentIndex == SparseExtractValue(t, entity)
        t0 == SparseRemove(t, entity)
        t1 == IF Len(t0.components) # componentIndex + 1
              THEN LET lastEntity == At(t0.entities, Len(t0.entities) - 1)
                       s1 == SparseAssign(t0, lastEntity, componentIndex)
                   IN  [s1 EXCEPT !.entities = SetAt(@, componentIndex, lastEntity),
                                  !.components = SetAt(@, componentIndex,
                                        At(t0.components, Len(t0.components) - 1))]
              ELSE t0
    IN  [t1 EXCEPT !.entities = Pop(@), !.components = Pop(@)]

\* A component that has been moved from (a null std::unique_ptr in the tests).
MovedFrom == 0

\* std::sort(s.rbegin(), s.rend()): s in descending order.
RECURSIVE SortDescending(_)
SortDescending(s) ==
    IF s = << >> THEN << >>
    ELSE LET m == CHOOSE i \in 1 .. Len(s) : \A j \in 1 .. Len(s) : s[j] <= s[i]
         IN  << s[m] >> \o
             SortDescending(SubSeq(s, 1, m - 1) \o SubSeq(s, m + 1, Len(s)))

\* removeRange, "Retreive erased indexes": the positions of the entities of
\* the range, in increasing order.
RECURSIVE erasedIndexes(_, _, _)
erasedIndexes(ents, range, i) ==
    IF i = Len(ents) THEN << >>
    ELSE (IF At(ents, i) >= range.begin /\ At(ents, i) < range.end
          THEN << i >> ELSE << >>) \o erasedIndexes(ents, range, i + 1)

\* removeRange, "Retreive move indexes": the loop over the sorted indexes from
\* position k on, with the current `last` and the moves pushed so far.
RECURSIVE removeRangeMoveIndexes(_, _, _, _)
removeRangeMoveIndexes(indexes, k, last, moves) ==
    IF k > Len(indexes) THEN [ moveIndexes |-> moves, last |-> last ]
    ELSE removeRangeMoveIndexes(indexes, k + 1, Dec(last),
            IF indexes[k] # last
            THEN Append(moves, [ begin |-> last, end |-> indexes[k] ])
            ELSE moves)

\* removeRange, "Erase entities": the moves applied to _entities and _indexSet.
RECURSIVE moveEntities(_, _, _)
moveEntities(t, moves, k) ==
    IF k > Len(moves) THEN t
    ELSE LET movedEntity == At(t.entities, moves[k].begin)
             t1 == [t EXCEPT !.entities = SetAt(@, moves[k].end, movedEntity)]
         IN  moveEntities(SparseAssign(t1, movedEntity, moves[k].end), moves, k + 1)

\* Mutant of moveComponents: the moves are applied last to first.
RECURSIVE moveComponentsReversed(_, _, _)
moveComponentsReversed(comps, moves, k) ==
    IF k > Len(moves) THEN comps
    ELSE LET m == moves[Len(moves) + 1 - k]
         IN  moveComponentsReversed(
                SetAt(SetAt(comps, m.end, At(comps, m.begin)), m.begin, MovedFrom),
                moves, k + 1)

\* removeRange, "Erase components": the moves applied to _components.
RECURSIVE moveComponents(_, _, _)
moveComponents(comps, moves, k) ==
    IF k > Len(moves) THEN comps
    ELSE moveComponents(
            SetAt(SetAt(comps, moves[k].end, At(comps, moves[k].begin)),
                  moves[k].begin, MovedFrom),
            moves, k + 1)

\* _indexSet.remove(entity) for every entity of the range found in _entities.
removeRangeIndexes(t, range) ==
    [t EXCEPT !.indexSet = [k \in Keys |->
        IF exists(t, k) /\ k >= range.begin /\ k < range.end
        THEN NullEntityIndex ELSE t.indexSet[k]]]

\* The move indexes removeRange(range) computes in t.
removeRangeMoves(t, range) ==
    removeRangeMoveIndexes(SortDescending(erasedIndexes(t.entities, range, 0)), 1,
                           Dec(Len(t.entities)), << >>).moveIndexes

\* removeRange(range)
removeRange(t, range) ==
    LET indexes == SortDescending(erasedIndexes(t.entities, range, 0))
        t0 == removeRangeIndexes(t, range)
        r == removeRangeMoveIndexes(indexes, 1, Dec(Len(t.entities)), << >>)
        t1 == moveEntities(t0, r.moveIndexes, 1)
        from == Inc(r.last)
    IN  IF indexes = << >> THEN t
        ELSE [t1 EXCEPT !.entities = EraseFrom(@, from),
                        !.components = EraseFrom(
                            moveComponents(@, r.moveIndexes, 1), from)]

\* clear()
clear(t) ==
    [SparseClearUnsafe(t) EXCEPT !.entities = << >>, !.components = << >>]

\* release()
release(t) ==
    [SparseReleaseUnsafe(t) EXCEPT !.entities = << >>, !.components = << >>]

(***************************************************************************)
(* traverse(callback).  A callback is invocable with (Entity, Component &),*)
(* with (Component &) or with (Entity); it returns bool or nothing.  A     *)
(* callback that returns bool returns false when the first argument it is  *)
(* called with is in `rejects`.                                            *)
(***************************************************************************)
Variants == { "entityComponent", "component", "entity" }

Callbacks == [ variant : Variants, boolean : BOOLEAN,
               rejects : SUBSET (Entities \cup Values) ]

\* The variant as recorded in the history.
VariantId(variant) ==
    CASE variant = "entityComponent" -> 0
      [] variant = "component" -> 1
      [] variant = "entity" -> 2

\* The arguments the callback is called with for the entity and component of
\* a position.
TraverseArgs(variant, entity, component) ==
    CASE variant = "entityComponent" -> << entity, component >>
      [] variant = "component" -> << component >>
      [] variant = "entity" -> << entity >>

\* callback(args...) == false
ReturnsFalse(callback, args) == callback.boolean /\ args[1] \in callback.rejects

\* Mutant of traverse: the result of the callback is not looked at.
RECURSIVE traverseNoBreak(_, _, _, _)
traverseNoBreak(t, callback, index, calls) ==
    IF index = Len(t.entities) THEN calls
    ELSE traverseNoBreak(t, callback, index + 1,
            Append(calls, TraverseArgs(callback.variant, At(t.entities, index),
                                       At(t.components, index))))

\* traverse(callback): the loop from position index on, calls being the
\* arguments of the calls made so far; the result is the calls made.
RECURSIVE traverse(_, _, _, _)
traverse(t, callback, index, calls) ==
    IF index = Len(t.entities) THEN calls
    ELSE LET args == TraverseArgs(callback.variant, At(t.entities, index),
                                  At(t.components, index))
         IN  IF ReturnsFalse(callback, args) THEN Append(calls, args)
             ELSE traverse(t, callback, index + 1, Append(calls, args))

(***************************************************************************)
(* sort(compareFunc).                                                      *)
(***************************************************************************)
\* The compare functors the table is sorted with: by entity, ascending and
\* descending, and by component value as the unit test does
\* (*table.get(lhs) < *table.get(rhs)); vals is table.get at the call.
Comparators == { "entityLess", "entityGreater", "valueLess" }

compareFunc(vals, c, lhs, rhs) ==
    CASE c = "entityLess" -> lhs < rhs
      [] c = "entityGreater" -> lhs > rhs
      [] c = "valueLess" -> vals[lhs] < vals[rhs]

\* The comparator as recorded in the history.
ComparatorId(c) ==
    CASE c = "entityLess" -> 0 [] c = "entityGreater" -> 1 [] c = "valueLess" -> 2

\* std::sort(_entities.begin(), _entities.end(), compareFunc): any
\* permutation of _entities ordered under the strict weak order compareFunc
\* (std::sort is not stable: equivalent elements end in any order).
StdSort(ents, vals, c) ==
    LET n == Len(ents)
        elems == { ents[i] : i \in 1 .. n }
    IN  { s \in [1 .. n -> elems] :
            /\ \A i, j \in 1 .. n : i # j => s[i] # s[j]
            /\ \A i, j \in 1 .. n : i < j => ~ compareFunc(vals, c, s[j], s[i]) }

\* table.get(e) for the entities of the dense table, as compareFunc reads it.
getAll(t) == [e \in { t.entities[i] : i \in 1 .. Len(t.entities) } |-> get(t, e)]

\* std::swap(s.at(i), s.at(j))
Swap(s, i, j) == [s EXCEPT ![i + 1] = s[j + 1], ![j + 1] = s[i + 1]]

\* The patch loops give up after PatchFuel(t) inner iterations: a loop that
\* never ends is reported (steps = PatchFuel) instead of followed.
PatchFuel(t) == Len(t.entities) * Len(t.entities) + 1

\* Mutant of sortChase: the sparse index of the chased entity is not patched.
RECURSIVE sortChaseNoIndexUpdate(_, _, _, _, _)
sortChaseNoIndexUpdate(t, current, currentEntity, next, steps) ==
    IF current = next \/ steps >= PatchFuel(t) THEN [ t |-> t, steps |-> steps ]
    ELSE LET nextEntity == At(t.entities, next)
             following == SparseAt(t, nextEntity)
             t1 == [t EXCEPT !.components = Swap(@, next, following)]
         IN  sortChaseNoIndexUpdate(t1, next, At(t1.entities, next), following,
                                    steps + 1)

\* Mutant of sortChase: the components of current and next are swapped.
RECURSIVE sortChaseSwapCurrent(_, _, _, _, _)
sortChaseSwapCurrent(t, current, currentEntity, next, steps) ==
    IF current = next \/ steps >= PatchFuel(t) THEN [ t |-> t, steps |-> steps ]
    ELSE LET nextEntity == At(t.entities, next)
             following == SparseAt(t, nextEntity)
             t1 == [t EXCEPT !.components = Swap(@, current, next)]
             t2 == SparseAssign(t1, currentEntity, current)
         IN  sortChaseSwapCurrent(t2, next, At(t2.entities, next), following,
                                  steps + 1)

\* sort, the inner `while (current != next)` loop.
RECURSIVE sortChase(_, _, _, _, _)
sortChase(t, current, currentEntity, next, steps) ==
    IF current = next \/ steps >= PatchFuel(t) THEN [ t |-> t, steps |-> steps ]
    ELSE LET nextEntity == At(t.entities, next)
             following == SparseAt(t, nextEntity)
             t1 == [t EXCEPT !.components = Swap(@, next, following)]
             t2 == SparseAssign(t1, currentEntity, current)
         IN  sortChase(t2, next, At(t2.entities, next), following, steps + 1)

\* sort, "Apply sort patch to components & sparse set": the outer loop.
RECURSIVE sortPatch(_, _, _)
sortPatch(t, from, steps) ==
    IF from = Len(t.entities) THEN [ t |-> t, steps |-> steps ]
    ELSE LET r == sortChase(t, from, At(t.entities, from),
                            SparseAt(t, At(t.entities, from)), steps)
         IN  sortPatch(r.t, from + 1, r.steps)

\* sort(compareFunc), for the outcome `sorted` of std::sort.
sort(t, sorted) == sortPatch([t EXCEPT !.entities = sorted], 0, 0)

(***************************************************************************)
(* StableComponentTable.                                                   *)
(***************************************************************************)
\* A cell of a component page that holds no live component.
Dead == 0

\* GetPageIndex(entityIndex) and GetComponentIndex(entityIndex) of the table.
GetComponentPageIndex(entityIndex) == entityIndex \div ComponentPageSize

GetComponentIndex(entityIndex) == entityIndex % ComponentPageSize

\* pageExists(pageIndex)
pageExists(t, pageIndex) == pageIndex < Len(t.componentPages)

\* atIndex(entityIndex)
atIndex(t, entityIndex) ==
    At(At(t.componentPages, GetComponentPageIndex(entityIndex)),
       GetComponentIndex(entityIndex))

\* The cell of entityIndex overwritten with cell.
setCell(t, entityIndex, cell) ==
    [t EXCEPT !.componentPages[GetComponentPageIndex(entityIndex) + 1]
                              [GetComponentIndex(entityIndex) + 1] = cell]

\* count(): the difference of two sizes, in the width of EntityIndex.
stableCount(t) ==
    (Len(t.entities) - Len(t.tombstones) + EntityModulus) % EntityModulus

\* get(entity)
stableGet(t, entity) == atIndex(t, SparseAt(t, entity))

\* insertComponent(entityIndex, args...), "Ensure destination page exists".
RECURSIVE ensurePage(_, _)
ensurePage(t, pageIndex) ==
    IF pageExists(t, pageIndex) THEN t
    ELSE ensurePage(
            [t EXCEPT !.componentPages =
                Append(@, [i \in 1 .. ComponentPageSize |-> Dead])],
            pageIndex)

\* insertComponent(entityIndex, args...)
insertComponent(t, entityIndex, value) ==
    setCell(ensurePage(t, GetComponentPageIndex(entityIndex)), entityIndex, value)

\* Mutant of stableAddIndex: the oldest tombstone is taken.
stableAddIndexOldest(t) ==
    IF t.tombstones = << >> THEN Len(t.entities) ELSE At(t.tombstones, 0)

\* addImpl(entity, args...): (the slot chosen is stableAddIndex).
stableAddIndex(t) ==
    IF t.tombstones = << >> THEN Len(t.entities)
    ELSE At(t.tombstones, Len(t.tombstones) - 1)

\* addImpl(entity, args...) writes _entities.at(entityIndex): the call is
\* defined when the slot taken from _tombstones lies inside _entities.
addDefined(t) == t.tombstones = << >> \/ stableAddIndex(t) < Len(t.entities)

\* Mutant of stableAddImpl: the tombstone that is reused is not popped.
stableAddImplNoPop(t, entity, value) ==
    LET entityIndex == stableAddIndex(t)
        t1 == IF t.tombstones = << >>
              THEN [t EXCEPT !.entities = Append(@, entity)]
              ELSE [t EXCEPT !.entities = SetAt(@, entityIndex, entity)]
    IN  insertComponent(SparseAdd(t1, entity, entityIndex), entityIndex, value)

stableAddImpl(t, entity, value) ==
    LET entityIndex == stableAddIndex(t)
        t1 == IF t.tombstones = << >>
              THEN [t EXCEPT !.entities = Append(@, entity)]
              ELSE [t EXCEPT !.tombstones = Pop(@),
                             !.entities = SetAt(@, entityIndex, entity)]
    IN  insertComponent(SparseAdd(t1, entity, entityIndex), entityIndex, value)

\* add(entity, args...), called with an entity that is not in the table.
stableAdd(t, entity, value) == stableAddImpl(t, entity, value)

\* Mutant of stableTryAdd: the component is added without looking for the entity.
stableTryAddAlwaysAdds(t, entity, value) == stableAddImpl(t, entity, value)

\* tryAdd(entity, component&&)
stableTryAdd(t, entity, value) ==
    IF findIndex(t, entity) # NullEntityIndex
    THEN setCell(t, SparseAt(t, entity), value)
    ELSE stableAddImpl(t, entity, value)

\* Mutant of stableAddRange: the entities are added one by one, tombstones
\* being reused.
RECURSIVE stableAddRangeOneByOne(_, _, _)
stableAddRangeOneByOne(t, range, value) ==
    IF range.begin = range.end THEN t
    ELSE stableAddRangeOneByOne(stableAddImpl(t, range.begin, value),
                                [range EXCEPT !.begin = @ + 1], value)

\* addRange(range, args...), "Insert components".
RECURSIVE insertComponents(_, _, _, _)
insertComponents(t, i, cnt, value) ==
    IF cnt = 0 THEN t
    ELSE insertComponents(insertComponent(t, i, value), i + 1, cnt - 1, value)

\* addRange(range, args...)
stableAddRange(t, range, value) ==
    LET lastIndex == Len(t.entities)
        cnt == range.end - range.begin
        newEntities == [i \in 1 .. cnt |-> range.begin + (i - 1)]
        newIndexSet == [k \in Keys |->
                            IF k >= range.begin /\ k < range.end
                            THEN lastIndex + (k - range.begin)
                            ELSE t.indexSet[k]]
        newPages == t.indexPages \cup
                        { GetPageIndex(k) : k \in range.begin .. (range.end - 1) }
        t1 == [t EXCEPT !.entities = @ \o newEntities,
                        !.indexSet = newIndexSet,
                        !.indexPages = newPages]
    IN  insertComponents(t1, lastIndex, cnt, value)

\* Mutant of stableRemoveImpl: no tombstone is pushed.
stableRemoveImplNoTombstone(t, entity, entityIndex) ==
    LET t1 == setCell(t, entityIndex, Dead)
        t2 == SparseRemove(t1, entity)
    IN  [t2 EXCEPT !.entities = SetAt(@, entityIndex, NullEntity)]

\* removeImpl(entity, entityIndex)
stableRemoveImpl(t, entity, entityIndex) ==
    LET t1 == setCell(t, entityIndex, Dead)
        t2 == SparseRemove(t1, entity)
    IN  [t2 EXCEPT !.entities = SetAt(@, entityIndex, NullEntity),
                   !.tombstones = Append(@, entityIndex)]

\* remove(entity): removeImpl(entity, _indexSet.extract(entity))
stableRemove(t, entity) ==
    stableRemoveImpl(SparseRemove(t, entity), entity, SparseExtractValue(t, entity))

\* tryRemove(entity): the table after the call.
stableTryRemove(t, entity) ==
    IF findIndex(t, entity) # NullEntityIndex
    THEN stableRemoveImpl(t, entity, findIndex(t, entity))
    ELSE t

\* removeRange(range): removeImpl(it, _indexSet.at(it)) for it from begin on.
RECURSIVE stableRemoveRangeFrom(_, _, _)
stableRemoveRangeFrom(t, it, end) ==
    IF it = end THEN t
    ELSE stableRemoveRangeFrom(stableRemoveImpl(t, it, SparseAt(t, it)), it + 1, end)

\* removeRange(range) that stops one entity before range.end.
stableRemoveRangeButLast(t, range) ==
    stableRemoveRangeFrom(t, range.begin, range.end - 1)

\* removeRange(range)
stableRemoveRange(t, range) == stableRemoveRangeFrom(t, range.begin, range.end)

\* extract(entity): the value moved out of the table.
stableExtractValue(t, entity) == atIndex(t, SparseExtractValue(t, entity))

\* Mutant of stableExtract: the slot of the entity is not pushed as tombstone.
stableExtractNoTombstone(t, entity) ==
    stableRemoveImplNoTombstone(SparseRemove(t, entity), entity,
                                SparseExtractValue(t, entity))

\* extract(entity): the table after the call.
stableExtract(t, entity) ==
    stableRemoveImpl(SparseRemove(t, entity), entity, SparseExtractValue(t, entity))

\* Mutant of packMoveIndexes: `last` is not decremented.
RECURSIVE packMoveIndexesNoDecrement(_, _, _, _)
packMoveIndexesNoDecrement(sortedTombstones, k, last, moves) ==
    IF k > Len(sortedTombstones) THEN [ moveIndexes |-> moves, last |-> last ]
    ELSE packMoveIndexesNoDecrement(sortedTombstones, k + 1, last,
            IF sortedTombstones[k] # last
            THEN Append(moves, [ begin |-> last, end |-> sortedTombstones[k] ])
            ELSE moves)

\* pack, "Retreive move indexes from tombstones": the loop over the sorted
\* tombstones from position k on.
RECURSIVE packMoveIndexes(_, _, _, _)
packMoveIndexes(sortedTombstones, k, last, moves) ==
    IF k > Len(sortedTombstones) THEN [ moveIndexes |-> moves, last |-> last ]
    ELSE packMoveIndexes(sortedTombstones, k + 1, Dec(last),
            IF sortedTombstones[k] # last
            THEN Append(moves, [ begin |-> last, end |-> sortedTombstones[k] ])
            ELSE moves)

\* pack, "Erase entities": the moves applied to _entities and _indexSet.
RECURSIVE packMoveEntities(_, _, _)
packMoveEntities(t, moves, k) ==
    IF k > Len(moves) THEN t
    ELSE LET movedEntity == At(t.entities, moves[k].begin)
             t1 == [t EXCEPT !.entities = SetAt(@, moves[k].end, movedEntity)]
         IN  packMoveEntities(SparseAssign(t1, movedEntity, moves[k].end),
                              moves, k + 1)

\* Mutant of packMoveComponents: the moves are applied last to first.
RECURSIVE packMoveComponentsReversed(_, _, _)
packMoveComponentsReversed(t, moves, k) ==
    IF k > Len(moves) THEN t
    ELSE LET m == moves[Len(moves) + 1 - k]
         IN  packMoveComponentsReversed(
                setCell(setCell(t, m.end, atIndex(t, m.begin)), m.begin, Dead),
                moves, k + 1)

\* pack, "Erase components": each component is move-constructed in the
\* destination cell and destroyed in the source cell.
RECURSIVE packMoveComponents(_, _, _)
packMoveComponents(t, moves, k) ==
    IF k > Len(moves) THEN t
    ELSE packMoveComponents(
            setCell(setCell(t, moves[k].end, atIndex(t, moves[k].begin)),
                    moves[k].begin, Dead),
            moves, k + 1)

\* The move indexes pack() computes in t.
packMoves(t) ==
    packMoveIndexes(SortDescending(t.tombstones), 1, Dec(Len(t.entities)), << >>)

\* pack() reads _entities[moveIndex.begin], writes _entities[moveIndex.end]
\* and erases from `from`: the call is defined when they lie inside _entities.
packDefined(t) ==
    \/ t.tombstones = << >>
    \/ /\ \A i \in 1 .. Len(t.tombstones) : t.tombstones[i] < Len(t.entities)
       /\ \A k \in 1 .. Len(packMoves(t).moveIndexes) :
            packMoves(t).moveIndexes[k].begin < Len(t.entities)
       /\ Inc(packMoves(t).last) <= Len(t.entities)

\* Mutant of pack: the tombstones are not cleared.
packKeepsTombstones(t) ==
    IF t.tombstones = << >> THEN t
    ELSE LET r == packMoves(t)
             t2 == packMoveEntities(t, r.moveIndexes, 1)
             from == Inc(r.last)
             t3 == [t2 EXCEPT !.entities = EraseFrom(@, from)]
         IN  packMoveComponents(t3, r.moveIndexes, 1)

\* pack()
pack(t) ==
    IF t.tombstones = << >> THEN t
    ELSE LET r == packMoves(t)
             t1 == [t EXCEPT !.tombstones = << >>]
             t2 == packMoveEntities(t1, r.moveIndexes, 1)
             from == Inc(r.last)
             t3 == [t2 EXCEPT !.entities = EraseFrom(@, from)]
         IN  packMoveComponents(t3, r.moveIndexes, 1)

\* Mutant of swapCells: the component of j is copied to i, j keeps its own.
swapCellsOneWay(t, i, j) == setCell(t, i, atIndex(t, j))

\* std::swap(atIndex(i), atIndex(j))
swapCells(t, i, j) == setCell(setCell(t, i, atIndex(t, j)), j, atIndex(t, i))

\* The inner loop of sort without `_indexSet.at(currentEntity) = current`.
RECURSIVE stableSortChaseNoIndexUpdate(_, _, _, _, _)
stableSortChaseNoIndexUpdate(t, current, currentEntity, next, steps) ==
    IF current = next \/ steps >= PatchFuel(t) THEN [ t |-> t, steps |-> steps ]
    ELSE LET nextEntity == At(t.entities, next)
             following == SparseAt(t, nextEntity)
             t1 == swapCells(t, next, following)
         IN  stableSortChaseNoIndexUpdate(t1, next, At(t1.entities, next),
                                          following, steps + 1)

\* sort, the inner `while (current != next)` loop.
RECURSIVE stableSortChase(_, _, _, _, _)
stableSortChase(t, current, currentEntity, next, steps) ==
    IF current = next \/ steps >= PatchFuel(t) THEN [ t |-> t, steps |-> steps ]
    ELSE LET nextEntity == At(t.entities, next)
             following == SparseAt(t, nextEntity)
             t1 == swapCells(t, next, following)
             t2 == SparseAssign(t1, currentEntity, current)
         IN  stableSortChase(t2, next, At(t2.entities, next), following, steps + 1)

\* sort, "Apply sort patch to components & sparse set": the outer loop.
RECURSIVE stableSortPatch(_, _, _)
stableSortPatch(t, from, steps) ==
    IF from = Len(t.entities) THEN [ t |-> t, steps |-> steps ]
    ELSE LET r == stableSortChase(t, from, At(t.entities, from),
                                  SparseAt(t, At(t.entities, from)), steps)
         IN  stableSortPatch(r.t, from + 1, r.steps)

\* table.get(e) for the live entities of the stable table.
stableGetAll(t) ==
    [e \in { t.entities[i] : i \in 1 .. Len(t.entities) } \ {NullEntity}
        |-> stableGet(t, e)]

\* sort(compareFunc) after its pack(), for the outcome `sorted` of std::sort.
stableSort(packed, sorted) == stableSortPatch([packed EXCEPT !.entities = sorted], 0, 0)

\* Mutant of stableClear: one tombstone is dropped by each call.
stableClearPopsTombstone(t) ==
    [SparseClearUnsafe(t) EXCEPT !.entities = << >>,
        !.tombstones = IF @ = << >> THEN @ ELSE Pop(@),
        !.componentPages = [p \in 1 .. Len(@) |-> [i \in 1 .. ComponentPageSize |-> Dead]]]

\* Mutant of stableTraverse: the slots of NullEntity are visited too.
RECURSIVE stableTraverseNoSkip(_, _, _, _)
stableTraverseNoSkip(t, callback, index, calls) ==
    IF index = Len(t.entities) THEN calls
    ELSE LET args == TraverseArgs(callback.variant, At(t.entities, index),
                                  atIndex(t, index))
         IN  IF ReturnsFalse(callback, args) THEN Append(calls, args)
             ELSE stableTraverseNoSkip(t, callback, index + 1, Append(calls, args))

\* traverse(callback): the loop from slot index on, calls being the arguments
\* of the calls made so far; the result is the calls made.
RECURSIVE stableTraverse(_, _, _, _)
stableTraverse(t, callback, index, calls) ==
    IF index = Len(t.entities) THEN calls
    ELSE IF At(t.entities, index) = NullEntity
         THEN stableTraverse(t, callback, index + 1, calls)
         ELSE LET args == TraverseArgs(callback.variant, At(t.entities, index),
                                       atIndex(t, index))
              IN  IF ReturnsFalse(callback, args) THEN Append(calls, args)
                  ELSE stableTraverse(t, callback, index + 1, Append(calls, args))

\* clear()
stableClear(t) ==
    [SparseClearUnsafe(t) EXCEPT !.entities = << >>,
        !.componentPages = [p \in 1 .. Len(@) |-> [i \in 1 .. ComponentPageSize |-> Dead]]]

\* release()
stableRelease(t) ==
    [SparseReleaseUnsafe(t) EXCEPT !.entities = << >>, !.componentPages = << >>]

(***************************************************************************)
(* The iterator of the stable table: a position _index in entities.  The   *)
(* result of a step is the new position and the indexes of entities it     *)
(* has read.  entities.at(max) lies past the end of the vector: what that  *)
(* read yields is not defined and `beyond` stands for it.                  *)
(***************************************************************************)
\* IteratorType::operator++
RECURSIVE iteratorIncrement(_, _, _, _)
iteratorIncrement(t, index, beyond, reads) ==
    IF index = Len(t.entities) THEN [ index |-> index, reads |-> reads ]
    ELSE LET next == Inc(index)
             entity == IF next < Len(t.entities) THEN At(t.entities, next)
                       ELSE beyond
         IN  IF entity # NullEntityIndex
             THEN [ index |-> next, reads |-> Append(reads, next) ]
             ELSE iteratorIncrement(t, next, beyond, Append(reads, next))

\* IteratorType::operator--
RECURSIVE iteratorDecrement(_, _, _)
iteratorDecrement(t, index, reads) ==
    IF index = 0 THEN [ index |-> index, reads |-> reads ]
    ELSE LET next == Dec(index)
         IN  IF At(t.entities, next) # NullEntityIndex
             THEN [ index |-> next, reads |-> Append(reads, next) ]
             ELSE iteratorDecrement(t, next, Append(reads, next))

(***************************************************************************)
(* The calls the operations of the tables make to the sparse index that    *)
(* have a precondition: add, remove and extract.  A call is recorded with  *)
(* the slot of its key at the moment it is made; `at`, the assignments     *)
(* through `at`, clearUnsafe and releaseUnsafe have none.                  *)
(***************************************************************************)
IndexCall(call, t, key) == [ call |-> call, key |-> key, slot |-> SparseAt(t, key) ]

\* add, remove and extract of the sparse index require the slot of the key
\* to be null (add) or non-null (remove, extract).
IndexCallRespected(c) ==
    IF c.call = "add" THEN c.slot = NullEntityIndex ELSE c.slot # NullEntityIndex

\* ComponentTable::addImpl
addImplIndexCalls(t, entity) == << IndexCall("add", t, entity) >>

\* ComponentTable::tryAdd
tryAddIndexCalls(t, entity) ==
    IF findIndex(t, entity) # NullEntityIndex THEN << >>
    ELSE addImplIndexCalls(t, entity)

\* ComponentTable::addRange, "Insert indexes"
addRangeIndexCalls(t, range) ==
    [i \in 1 .. (range.end - range.begin) |-> IndexCall("add", t, range.begin + i - 1)]

\* ComponentTable::removeImpl
removeImplIndexCalls(t, entity, entityIndex) ==
    LET t0 == IF Len(t.components) # entityIndex + 1
              THEN SparseAssign(t, At(t.entities, Len(t.entities) - 1), entityIndex)
              ELSE t
    IN  << IndexCall("remove", t0, entity) >>

\* ComponentTable::remove
removeIndexCalls(t, entity) ==
    << IndexCall("extract", t, entity) >>
        \o removeImplIndexCalls(SparseRemove(t, entity), entity,
                                SparseExtractValue(t, entity))

\* ComponentTable::tryRemove
tryRemoveIndexCalls(t, entity) ==
    IF findIndex(t, entity) # NullEntityIndex
    THEN removeImplIndexCalls(t, entity, findIndex(t, entity))
    ELSE << >>

\* ComponentTable::removeRange, "Retreive erased indexes"
removeRangeIndexCalls(t, range) ==
    LET indexes == erasedIndexes(t.entities, range, 0)
    IN  [k \in 1 .. Len(indexes) |-> IndexCall("remove", t, At(t.entities, indexes[k]))]

\* ComponentTable::extract
extractIndexCalls(t, entity) == << IndexCall("extract", t, entity) >>

\* StableComponentTable::addImpl
stableAddImplIndexCalls(t, entity) == << IndexCall("add", t, entity) >>

\* StableComponentTable::tryAdd
stableTryAddIndexCalls(t, entity) ==
    IF findIndex(t, entity) # NullEntityIndex THEN << >>
    ELSE stableAddImplIndexCalls(t, entity)

\* StableComponentTable::addRange, "Insert indexes"
stableAddRangeIndexCalls(t, range) ==
    [i \in 1 .. (range.end - range.begin) |-> IndexCall("add", t, range.begin + i - 1)]

\* StableComponentTable::removeImpl
stableRemoveImplIndexCalls(t, entity, entityIndex) ==
    << IndexCall("remove", t, entity) >>

\* StableComponentTable::remove
stableRemoveIndexCalls(t, entity) ==
    << IndexCall("extract", t, entity) >>
        \o stableRemoveImplIndexCalls(SparseRemove(t, entity), entity,
                                      SparseExtractValue(t, entity))

\* StableComponentTable::tryRemove
stableTryRemoveIndexCalls(t, entity) ==
    IF findIndex(t, entity) # NullEntityIndex
    THEN stableRemoveImplIndexCalls(t, entity, findIndex(t, entity))
    ELSE << >>

\* StableComponentTable::removeRange
stableRemoveRangeIndexCalls(t, range) ==
    [i \in 1 .. (range.end - range.begin) |->
        IndexCall("remove", t, range.begin + i - 1)]

\* StableComponentTable::extract
stableExtractIndexCalls(t, entity) ==
    << IndexCall("extract", t, entity) >>
        \o stableRemoveImplIndexCalls(SparseRemove(t, entity), entity,
                                      SparseExtractValue(t, entity))

(***************************************************************************)
(* The entity allocator of a system (Internal::ASystem).  A value a is a   *)
(* record of _lastEntity and _freeEntities; the arithmetic is the one of   *)
(* Entity, modulo EntityModulus.                                           *)
(***************************************************************************)
\* The allocator read from the variables.
SystemSelf == [ lastEntity |-> systemLastEntity, freeEntities |-> freeEntities ]

\* The ids of the range [begin, end), as a loop `for (it = begin; it != end;
\* ++it)` visits them.
RangeIds(range) ==
    IF range.begin <= range.end THEN range.begin .. (range.end - 1)
    ELSE (range.begin .. (EntityModulus - 1)) \cup (0 .. (range.end - 1))

\* s without its element of position i (1-based): _freeEntities.erase(it).
EraseAt(s, i) == SubSeq(s, 1, i - 1) \o SubSeq(s, i + 1, Len(s))

\* add() taking the entity of the last free range instead of the first.
systemAddBack(a) ==
    IF a.freeEntities = << >>
    THEN [ a |-> [a EXCEPT !.lastEntity = Inc(@)], entity |-> Inc(a.lastEntity) ]
    ELSE LET back == Len(a.freeEntities)
             freeRange == a.freeEntities[back]
             begin == Inc(freeRange.begin)
         IN  [ a |-> [a EXCEPT !.freeEntities =
                        IF begin = freeRange.end THEN EraseAt(@, back)
                        ELSE [@ EXCEPT ![back].begin = begin]],
               entity |-> freeRange.begin ]

\* add(): the allocator after the call and the entity returned.
systemAdd(a) ==
    IF a.freeEntities = << >>
    THEN [ a |-> [a EXCEPT !.lastEntity = Inc(@)], entity |-> Inc(a.lastEntity) ]
    ELSE LET freeRange == a.freeEntities[1]
             begin == Inc(freeRange.begin)
         IN  [ a |-> [a EXCEPT !.freeEntities =
                        IF begin = freeRange.end THEN EraseAt(@, 1)
                        ELSE [@ EXCEPT ![1].begin = begin]],
               entity |-> freeRange.begin ]

\* addRange(n): the loop from the free range `it` on; the allocator after
\* the call and the range returned.
RECURSIVE systemAddRangeFrom(_, _, _)
systemAddRangeFrom(a, it, n) ==
    IF it > Len(a.freeEntities)
    THEN [ a |-> [a EXCEPT !.lastEntity = (@ + n) % EntityModulus],
           range |-> [ begin |-> Inc(a.lastEntity),
                       end |-> (Inc(a.lastEntity) + n) % EntityModulus ] ]
    ELSE LET freeRange == a.freeEntities[it]
             begin == (freeRange.begin + n) % EntityModulus
         IN  IF (freeRange.end - freeRange.begin + EntityModulus) % EntityModulus < n
             THEN systemAddRangeFrom(a, it + 1, n)
             ELSE [ a |-> [a EXCEPT !.freeEntities =
                            IF begin = freeRange.end THEN EraseAt(@, it)
                            ELSE [@ EXCEPT ![it].begin = begin]],
                    range |-> [ begin |-> freeRange.begin, end |-> begin ] ]

\* addRange(count), the count called n
systemAddRange(a, n) == systemAddRangeFrom(a, 1, n)

\* remove(entity), the loop over _freeEntities: the first free range the
\* entity is next to, 0 when there is none.
adjacentToEntity(a, entity) ==
    LET found == { i \in 1 .. Len(a.freeEntities) :
                    ~ (Dec(a.freeEntities[i].begin) # entity
                        /\ a.freeEntities[i].end # entity) }
    IN  IF found = {} THEN 0 ELSE CHOOSE i \in found : \A k \in found : i <= k

\* remove(entity) without the unwinding of _lastEntity: the released top is
\* put on the free list like any other entity.
systemRemoveNoUnwind(a, entity) ==
    LET i == adjacentToEntity(a, entity)
    IN  IF i = 0
        THEN [a EXCEPT !.freeEntities =
                    Append(@, [ begin |-> entity, end |-> Inc(entity) ])]
        ELSE IF a.freeEntities[i].end = entity
             THEN [a EXCEPT !.freeEntities[i].end = Inc(@)]
             ELSE [a EXCEPT !.freeEntities[i].begin = Dec(@)]

\* remove(entity)
systemRemove(a, entity) ==
    IF entity = a.lastEntity THEN [a EXCEPT !.lastEntity = Dec(@)]
    ELSE LET i == adjacentToEntity(a, entity)
         IN  IF i = 0
             THEN [a EXCEPT !.freeEntities =
                        Append(@, [ begin |-> entity, end |-> Inc(entity) ])]
             ELSE IF a.freeEntities[i].end = entity
                  THEN [a EXCEPT !.freeEntities[i].end = Inc(@)]
                  ELSE [a EXCEPT !.freeEntities[i].begin = Dec(@)]

\* removeRange(range), the loop over _freeEntities: the first free range the
\* range is next to, 0 when there is none.
adjacentToRange(a, range) ==
    LET found == { i \in 1 .. Len(a.freeEntities) :
                    ~ (a.freeEntities[i].begin # range.end
                        /\ a.freeEntities[i].end # range.begin) }
    IN  IF found = {} THEN 0 ELSE CHOOSE i \in found : \A k \in found : i <= k

\* removeRange(range)
systemRemoveRange(a, range) ==
    IF Dec(range.end) = a.lastEntity THEN [a EXCEPT !.lastEntity = Dec(range.begin)]
    ELSE LET i == adjacentToRange(a, range)
         IN  IF i = 0 THEN [a EXCEPT !.freeEntities = Append(@, range)]
             ELSE IF a.freeEntities[i].end = range.begin
                  THEN [a EXCEPT !.freeEntities[i].end = range.end]
                  ELSE [a EXCEPT !.freeEntities[i].begin = range.begin]

(***************************************************************************)
(* System<ComponentTypes...>: the component tables `_tables` of a system   *)
(* on top of its entity allocator.  A system value is a record of the      *)
(* sequence of its tables, each with the kind of its class, and of its     *)
(* allocator.                                                              *)
(***************************************************************************)
\* The system read from the variables: a system of one component type whose
\* table is the table of the variables.
SystemOfSelf ==
    [ tables |-> << [ kind |-> kind, t |-> Self ] >>, a |-> SystemSelf ]

\* getTable<Component>().add(entity, component)
tableAdd(c, entity, value) ==
    [c EXCEPT !.t = IF c.kind = "stable" THEN stableAdd(@, entity, value)
                    ELSE add(@, entity, value)]

\* getTable<Component>().addRange(range, component)
tableAddRange(c, range, value) ==
    [c EXCEPT !.t = IF c.kind = "stable" THEN stableAddRange(@, range, value)
                    ELSE addRange(@, range, value)]

\* std::get<Indexes>(_tables).tryRemove(entity)
tableTryRemove(c, entity) ==
    [c EXCEPT !.t = IF c.kind = "stable" THEN stableTryRemove(@, entity)
                    ELSE tryRemove(@, entity)]

\* std::get<Indexes>(_tables).removeRange(range)
tableRemoveRange(c, range) ==
    [c EXCEPT !.t = IF c.kind = "stable" THEN stableRemoveRange(@, range)
                    ELSE removeRange(@, range)]

\* removeRange(range) of the stable table reads _indexSet.at(it) and runs
\* removeImpl on the index read for every entity of the range: it is defined
\* when the page of every entity exists and its slot holds an index.
stableRemoveRangeDefined(t, range) ==
    \A e \in RangeIds(range) :
        SparsePageExists(t, e) /\ SparseAt(t, e) # NullEntityIndex

\* attach(entity, components...): add on the tables of the components given,
\* `attached` being their positions in _tables.
systemAttach(w, attached, entity, value) ==
    [w EXCEPT !.tables = [i \in 1 .. Len(w.tables) |->
        IF i \in attached THEN tableAdd(w.tables[i], entity, value)
        ELSE w.tables[i]]]

\* attachRange(range, components...)
systemAttachRange(w, attached, range, value) ==
    [w EXCEPT !.tables = [i \in 1 .. Len(w.tables) |->
        IF i \in attached THEN tableAddRange(w.tables[i], range, value)
        ELSE w.tables[i]]]

\* add(components...): the system after the call and the entity returned.
systemAddComponents(w, attached, value) ==
    LET r == systemAdd(w.a)
    IN  [ w |-> systemAttach([w EXCEPT !.a = r.a], attached, r.entity, value),
          entity |-> r.entity ]

\* addRange(count, components...): the system after the call and the range
\* returned.
systemAddRangeComponents(w, attached, n, value) ==
    LET r == systemAddRange(w.a, n)
    IN  [ w |-> systemAttachRange([w EXCEPT !.a = r.a], attached, r.range, value),
          range |-> r.range ]

\* System::remove(entity): tryRemove(entity) on every table, then
\* ASystem::remove(entity).
systemRemoveEntity(w, entity) ==
    [ tables |-> [i \in 1 .. Len(w.tables) |-> tableTryRemove(w.tables[i], entity)],
      a |-> systemRemove(w.a, entity) ]

\* System::removeRange(range) is defined: removeRange(range) of every table
\* is.
systemRemoveEntityRangeDefined(w, range) ==
    \A i \in 1 .. Len(w.tables) :
        w.tables[i].kind = "stable" => stableRemoveRangeDefined(w.tables[i].t, range)

\* System::removeRange(range): removeRange(range) on every table, then
\* ASystem::removeRange(range).
systemRemoveEntityRange(w, range) ==
    [ tables |-> [i \in 1 .. Len(w.tables) |-> tableRemoveRange(w.tables[i], range)],
      a |-> systemRemoveRange(w.a, range) ]

(***************************************************************************)
(* Initial state and the operations of the dense table.                    *)
(***************************************************************************)
Init ==
    /\ kind \in { "dense", "stable" }
    /\ indexSet = [k \in Keys |-> NullEntityIndex]
    /\ indexPages = {}
    /\ entities = << >>
    /\ components = << >>
    /\ componentPages = << >>
    /\ tombstones = << >>
    /\ written = [e \in Entities |-> 0]
    /\ lastOp = Op("init", 0, 0, 0, 0)
    /\ systemLastEntity = 0
    /\ freeEntities = << >>
    /\ live = {}

Add ==
    \E e \in Entities, v \in Values :
        /\ kind = "dense"
        /\ ~ exists(Self, e)
        /\ Store(add(Self, e, v))
        /\ written' = [written EXCEPT ![e] = v]
        /\ lastOp' = Op("add", e, v, Len(entities), 0)
        /\ UNCHANGED << kind, system >>

TryAdd ==
    \E e \in Entities, v \in Values :
        /\ kind = "dense"
        /\ Store(tryAdd(Self, e, v))
        /\ written' = [written EXCEPT ![e] = v]
        /\ lastOp' = Op("tryAdd", e, v, Len(entities), IF exists(Self, e) THEN 1 ELSE 0)
        /\ UNCHANGED << kind, system >>

AddRange ==
    \E r \in EntityRanges, v \in Values :
        /\ kind = "dense"
        /\ \A e \in r.begin .. (r.end - 1) : ~ exists(Self, e)
        /\ Store(addRange(Self, r, v))
        /\ written' = [e \in Entities |->
                            IF e >= r.begin /\ e < r.end THEN v ELSE written[e]]
        /\ lastOp' = Op("addRange", r.begin, r.end, Len(entities), 0)
        /\ UNCHANGED << kind, system >>

Remove ==
    \E e \in Entities :
        /\ kind = "dense"
        /\ exists(Self, e)
        /\ Store(remove(Self, e))
        /\ lastOp' = Op("remove", e, SparseAt(Self, e), Len(entities), 0)
        /\ written' = Forget({e})
        /\ UNCHANGED << kind, system >>

TryRemove ==
    \E e \in Entities :
        /\ kind = "dense"
        /\ Store(tryRemove(Self, e))
        /\ lastOp' = Op("tryRemove", e, findIndex(Self, e), Len(entities),
                        IF tryRemoveResult(Self, e) THEN 1 ELSE 0)
        /\ written' = Forget({e})
        /\ UNCHANGED << kind, system >>

\* The history of removeRange: e and x are the range, n is count() before the
\* call and ret the number of moves.
RemoveRange ==
    \E r \in EntityRanges :
        /\ kind = "dense"
        /\ Store(removeRange(Self, r))
        /\ lastOp' = Op("removeRange", r.begin, r.end, Len(entities),
                        Len(removeRangeMoves(Self, r)))
        /\ written' = Forget(r.begin .. (r.end - 1))
        /\ UNCHANGED << kind, system >>

Extract ==
    \E e \in Entities :
        /\ kind = "dense"
        /\ exists(Self, e)
        /\ Store(extract(Self, e))
        /\ lastOp' = Op("extract", e, SparseAt(Self, e), Len(entities),
                        extractValue(Self, e))
        /\ written' = Forget({e})
        /\ UNCHANGED << kind, system >>

Sort ==
    \E c \in Comparators :
        /\ kind = "dense"
        /\ \E sorted \in StdSort(entities, getAll(Self), c) :
            /\ Store(sort(Self, sorted).t)
            /\ lastOp' = Op("sort", ComparatorId(c), 0, sort(Self, sorted).steps, 0)
            /\ UNCHANGED << kind, written, system >>

Clear ==
    /\ kind = "dense"
    /\ Store(clear(Self))
    /\ lastOp' = Op("clear", 0, 0, Len(entities), 0)
    /\ written' = Forget(Entities)
    /\ UNCHANGED << kind, system >>

Release ==
    /\ kind = "dense"
    /\ Store(release(Self))
    /\ lastOp' = Op("release", 0, 0, Len(entities), 0)
    /\ written' = Forget(Entities)
    /\ UNCHANGED << kind, system >>

(***************************************************************************)
(* The operations of the stable table.  clear() and release() of the       *)
(* stable table are not part of Next: they are taken by SpecLifecycle.     *)
(* The tombstone list holds at most MaxSlots indexes.                      *)
(***************************************************************************)
StableAdd ==
    \E e \in Entities, v \in Values :
        /\ kind = "stable"
        /\ ~ exists(Self, e)
        /\ addDefined(Self)
        /\ Store(stableAdd(Self, e, v))
        /\ written' = [written EXCEPT ![e] = v]
        /\ lastOp' = Op("add", e, v, stableAddIndex(Self),
                        IF tombstones = << >> THEN 0 ELSE 1)
        /\ UNCHANGED << kind, system >>

StableTryAdd ==
    \E e \in Entities, v \in Values :
        /\ kind = "stable"
        /\ exists(Self, e) \/ addDefined(Self)
        /\ Store(stableTryAdd(Self, e, v))
        /\ written' = [written EXCEPT ![e] = v]
        /\ lastOp' = Op("tryAdd", e, v, Len(entities), IF exists(Self, e) THEN 1 ELSE 0)
        /\ UNCHANGED << kind, system >>

StableAddRange ==
    \E r \in EntityRanges, v \in Values :
        /\ kind = "stable"
        /\ \A e \in r.begin .. (r.end - 1) : ~ exists(Self, e)
        /\ Len(entities) + (r.end - r.begin) <= MaxSlots
        /\ Store(stableAddRange(Self, r, v))
        /\ written' = [e \in Entities |->
                            IF e >= r.begin /\ e < r.end THEN v ELSE written[e]]
        /\ lastOp' = Op("addRange", r.begin, r.end, Len(entities), 0)
        /\ UNCHANGED << kind, system >>

StableRemove ==
    \E e \in Entities :
        /\ kind = "stable"
        /\ exists(Self, e)
        /\ Len(tombstones) < MaxSlots
        /\ Store(stableRemove(Self, e))
        /\ lastOp' = Op("remove", e, SparseAt(Self, e), Len(entities), 0)
        /\ written' = Forget({e})
        /\ UNCHANGED << kind, system >>

StableTryRemove ==
    \E e \in Entities :
        /\ kind = "stable"
        /\ Len(tombstones) < MaxSlots
        /\ Store(stableTryRemove(Self, e))
        /\ lastOp' = Op("tryRemove", e, findIndex(Self, e), Len(entities),
                        IF tryRemoveResult(Self, e) THEN 1 ELSE 0)
        /\ written' = Forget({e})
        /\ UNCHANGED << kind, system >>

StableRemoveRange ==
    \E r \in EntityRanges :
        /\ kind = "stable"
        /\ \A e \in r.begin .. (r.end - 1) : exists(Self, e)
        /\ Len(tombstones) + (r.end - r.begin) <= MaxSlots
        /\ Store(stableRemoveRange(Self, r))
        /\ lastOp' = Op("removeRange", r.begin, r.end, Len(entities), 0)
        /\ written' = Forget(r.begin .. (r.end - 1))
        /\ UNCHANGED << kind, system >>

StableExtract ==
    \E e \in Entities :
        /\ kind = "stable"
        /\ exists(Self, e)
        /\ Len(tombstones) < MaxSlots
        /\ Store(stableExtract(Self, e))
        /\ lastOp' = Op("extract", e, SparseAt(Self, e), Len(entities),
                        stableExtractValue(Self, e))
        /\ written' = Forget({e})
        /\ UNCHANGED << kind, system >>

\* The history of pack: n is the number of tombstones, x the number of moves
\* and ret is 1 when a component moved by one move is moved again by a later one.
Pack ==
    /\ kind = "stable"
    /\ packDefined(Self)
    /\ Store(pack(Self))
    /\ lastOp' =
        LET moves == IF tombstones = << >> THEN << >> ELSE packMoves(Self).moveIndexes
        IN  Op("pack", 0, Len(moves), Len(tombstones),
               IF \E i, j \in 1 .. Len(moves) : i < j /\ moves[j].begin = moves[i].end
               THEN 1 ELSE 0)
    /\ UNCHANGED << kind, written, system >>

\* The history of sort: e is the comparator, x the number of tombstones
\* packed first and n the number of iterations of the inner patch loop.
StableSort ==
    \E c \in Comparators :
        /\ kind = "stable"
        /\ packDefined(Self)
        /\ \E sorted \in StdSort(pack(Self).entities, stableGetAll(pack(Self)), c) :
            /\ Store(stableSort(pack(Self), sorted).t)
            /\ lastOp' = Op("sort", ComparatorId(c), Len(tombstones),
                            stableSort(pack(Self), sorted).steps, 0)
            /\ UNCHANGED << kind, written, system >>

Next ==
    \/ Add \/ TryAdd \/ AddRange
    \/ Remove \/ TryRemove \/ RemoveRange \/ Extract
    \/ Sort \/ Clear \/ Release
    \/ StableAdd \/ StableTryAdd \/ StableAddRange
    \/ StableRemove \/ StableTryRemove \/ StableRemoveRange \/ StableExtract
    \/ Pack \/ StableSort

Spec == Init /\ [][Next]_vars

(***************************************************************************)
(* The operations of Next and the traversal of the tables.                 *)
(***************************************************************************)
\* The history of traverse: e is the variant of the callback, x the number of
\* calls made, n is count() and ret is 1 when the last call returned false.
Traverse ==
    \E callback \in Callbacks :
        LET calls == traverse(Self, callback, 0, << >>)
        IN  /\ kind = "dense"
            /\ lastOp' = Op("traverse", VariantId(callback.variant), Len(calls),
                            Len(entities),
                            IF calls # << >> /\ ReturnsFalse(callback, calls[Len(calls)])
                            THEN 1 ELSE 0)
            /\ UNCHANGED << kind, indexSet, indexPages, entities, components,
                            componentPages, tombstones, written, system >>

\* The history of traverse of the stable table: n is entities.size().
StableTraverse ==
    \E callback \in Callbacks :
        LET calls == stableTraverse(Self, callback, 0, << >>)
        IN  /\ kind = "stable"
            /\ lastOp' = Op("traverse", VariantId(callback.variant), Len(calls),
                            Len(entities),
                            IF calls # << >> /\ ReturnsFalse(callback, calls[Len(calls)])
                            THEN 1 ELSE 0)
            /\ UNCHANGED << kind, indexSet, indexPages, entities, components,
                            componentPages, tombstones, written, system >>

NextTraverse == Next \/ Traverse \/ StableTraverse

SpecTraverse == Init /\ [][NextTraverse]_vars

(***************************************************************************)
(* The life cycle of a table: the operations of Next, and clear() and      *)
(* release() of the stable table, which leave _tombstones as it is.  A     *)
(* call that reads or writes _entities past its end has no defined         *)
(* outcome: the table is "undefined" from then on and nothing is said      *)
(* about it.                                                               *)
(***************************************************************************)
\* The number of tombstones a stable table holds at most when clear() or
\* release() is called.
MaxStaleTombstones == 1

\* The history of clear and release: x is the number of tombstones and n the
\* length of entities before the call.
StableClear ==
    /\ kind = "stable"
    /\ Len(tombstones) <= MaxStaleTombstones
    /\ Store(stableClear(Self))
    /\ lastOp' = Op("clear", 0, Len(tombstones), Len(entities), 0)
    /\ written' = Forget(Entities)
    /\ UNCHANGED << kind, system >>

StableRelease ==
    /\ kind = "stable"
    /\ Len(tombstones) <= MaxStaleTombstones
    /\ Store(stableRelease(Self))
    /\ lastOp' = Op("release", 0, Len(tombstones), Len(entities), 0)
    /\ written' = Forget(Entities)
    /\ UNCHANGED << kind, system >>

\* add or tryAdd of an absent entity that takes a slot past the end of
\* _entities, pack or sort that moves from or erases past the end.
StableUndefined ==
    /\ kind = "stable"
    /\ \/ /\ ~ addDefined(Self)
          /\ lastOp' = Op("add", 0, Len(tombstones), Len(entities), 0)
       \/ /\ ~ packDefined(Self)
          /\ lastOp' = Op("pack", 0, Len(tombstones), Len(entities), 0)
    /\ kind' = "undefined"
    /\ Store(EmptyTable)
    /\ written' = Forget(Entities)
    /\ UNCHANGED system

NextLifecycle == Next \/ StableClear \/ StableRelease \/ StableUndefined

SpecLifecycle == Init /\ [][NextLifecycle]_vars

(***************************************************************************)
(* The entity allocator: add, addRange, remove and removeRange of a        *)
(* system, the callers releasing only ids that are live.  _freeEntities    *)
(* holds at most MaxFreeRanges ranges and addRange is called with counts   *)
(* up to MaxCount.                                                         *)
(***************************************************************************)
MaxFreeRanges == 2

MaxCount == 2

\* The ranges a caller releases: [begin, end) with 1 to MaxCount ids.
ReleasedRanges ==
    { r \in [ begin : 0 .. (EntityModulus - 1), end : 0 .. (EntityModulus - 1) ] :
        r.begin < r.end /\ r.end - r.begin <= MaxCount }

\* The end of the id space has been passed: add or addRange has returned
\* NULL_ENTITY or, past it, 0.
SystemWrapped == NullEntity \in live \/ 0 \in live

\* The allocator is followed past the end of the id space for as long as
\* _lastEntity has not left NULL_ENTITY and 0 again, and ids are released
\* before that only.
SystemFollowed == SystemWrapped => systemLastEntity \in { NullEntity, 0 }

SystemStore(a) ==
    /\ systemLastEntity' = a.lastEntity
    /\ freeEntities' = a.freeEntities

SystemInit ==
    /\ kind = "system"
    /\ indexSet = [k \in Keys |-> NullEntityIndex]
    /\ indexPages = {}
    /\ entities = << >>
    /\ components = << >>
    /\ componentPages = << >>
    /\ tombstones = << >>
    /\ written = [e \in Entities |-> 0]
    /\ lastOp = Op("init", 0, 0, 0, 0)
    /\ systemLastEntity = 0
    /\ freeEntities = << >>
    /\ live = {}

\* The history of add: e is the entity returned, n is _lastEntity and x the
\* number of free ranges before the call, ret is 1 when the entity was live.
SystemAdd ==
    /\ kind = "system"
    /\ SystemFollowed
    /\ SystemStore(systemAdd(SystemSelf).a)
    /\ live' = live \cup { systemAdd(SystemSelf).entity }
    /\ lastOp' = Op("add", systemAdd(SystemSelf).entity, Len(freeEntities),
                    systemLastEntity,
                    IF systemAdd(SystemSelf).entity \in live THEN 1 ELSE 0)
    /\ UNCHANGED << kind, table >>

\* The history of addRange: e and x are the range returned, n is _lastEntity
\* before the call and ret is the count.
SystemAddRange ==
    \E cnt \in 1 .. MaxCount :
        /\ kind = "system"
        /\ SystemFollowed
        /\ SystemStore(systemAddRange(SystemSelf, cnt).a)
        /\ live' = live \cup RangeIds(systemAddRange(SystemSelf, cnt).range)
        /\ lastOp' = Op("addRange", systemAddRange(SystemSelf, cnt).range.begin,
                        systemAddRange(SystemSelf, cnt).range.end,
                        systemLastEntity, cnt)
        /\ UNCHANGED << kind, table >>

\* The history of remove: e is the entity, n is _lastEntity and x the number
\* of free ranges before the call, ret the free range extended (0: none).
SystemRemove ==
    \E e \in live :
        /\ kind = "system"
        /\ ~ SystemWrapped
        /\ Len(systemRemove(SystemSelf, e).freeEntities) <= MaxFreeRanges
        /\ SystemStore(systemRemove(SystemSelf, e))
        /\ live' = live \ {e}
        /\ lastOp' = Op("remove", e, Len(freeEntities), systemLastEntity,
                        IF e = systemLastEntity THEN 0
                        ELSE adjacentToEntity(SystemSelf, e))
        /\ UNCHANGED << kind, table >>

\* The history of removeRange: e and x are the range, n is _lastEntity before
\* the call, ret the free range extended (0: none).
SystemRemoveRange ==
    \E r \in ReleasedRanges :
        /\ kind = "system"
        /\ ~ SystemWrapped
        /\ RangeIds(r) \subseteq live
        /\ Len(systemRemoveRange(SystemSelf, r).freeEntities) <= MaxFreeRanges
        /\ SystemStore(systemRemoveRange(SystemSelf, r))
        /\ live' = live \ RangeIds(r)
        /\ lastOp' = Op("removeRange", r.begin, r.end, systemLastEntity,
                        IF Dec(r.end) = systemLastEntity THEN 0
                        ELSE adjacentToRange(SystemSelf, r))
        /\ UNCHANGED << kind, table >>

SystemNext == SystemAdd \/ SystemAddRange \/ SystemRemove \/ SystemRemoveRange

SpecSystem == SystemInit /\ [][SystemNext]_vars

(***************************************************************************)
(* A system of one component type, its table dense or stable: entities are *)
(* created with or without the component, alone or by ranges, and removed  *)
(* by System::remove and System::removeRange.  The ids stay in Entities.   *)
(***************************************************************************)
\* add(components...) and add(): e is the entity returned, x the value of the
\* component, n the number of entities of the table before the call, ret is
\* 1 when the component was attached.
SystemAddEntity ==
    \E attached \in SUBSET {1}, v \in Values :
        LET r == systemAddComponents(SystemOfSelf, attached, v)
        IN  /\ kind \in { "dense", "stable" }
            /\ r.entity \in 1 .. MaxEntity
            /\ (kind = "stable" /\ attached # {}) => addDefined(Self)
            /\ Store(r.w.tables[1].t)
            /\ SystemStore(r.w.a)
            /\ live' = live \cup { r.entity }
            /\ written' = IF attached = {} THEN written
                          ELSE [written EXCEPT ![r.entity] = v]
            /\ lastOp' = Op("systemAdd", r.entity, v, Len(entities),
                            IF attached = {} THEN 0 ELSE 1)
            /\ UNCHANGED kind

\* addRange(count, components...) and addRange(count): e and x are the range
\* returned, n the number of entities of the table before the call, ret is 1
\* when the component was attached.
SystemAddEntityRange ==
    \E attached \in SUBSET {1}, cnt \in 1 .. MaxCount, v \in Values :
        LET r == systemAddRangeComponents(SystemOfSelf, attached, cnt, v)
        IN  /\ kind \in { "dense", "stable" }
            /\ r.range.begin < r.range.end
            /\ RangeIds(r.range) \subseteq 1 .. MaxEntity
            /\ (kind = "stable" /\ attached # {}) => Len(entities) + cnt <= MaxSlots
            /\ Store(r.w.tables[1].t)
            /\ SystemStore(r.w.a)
            /\ live' = live \cup RangeIds(r.range)
            /\ written' = IF attached = {} THEN written
                          ELSE [e \in Entities |->
                                    IF e \in RangeIds(r.range) THEN v ELSE written[e]]
            /\ lastOp' = Op("systemAddRange", r.range.begin, r.range.end,
                            Len(entities), IF attached = {} THEN 0 ELSE 1)
            /\ UNCHANGED kind

\* System::remove(entity): e is the entity, x its index in the table before
\* the call, n the number of entities of the table before the call, ret is
\* 1 when the table held the entity.
SystemRemoveEntity ==
    \E e \in live :
        /\ kind \in { "dense", "stable" }
        /\ Store(systemRemoveEntity(SystemOfSelf, e).tables[1].t)
        /\ SystemStore(systemRemoveEntity(SystemOfSelf, e).a)
        /\ live' = live \ {e}
        /\ written' = Forget({e})
        /\ lastOp' = Op("systemRemove", e, findIndex(Self, e), Len(entities),
                        IF exists(Self, e) THEN 1 ELSE 0)
        /\ UNCHANGED kind

\* System::removeRange(range): e and x are the range, n the number of
\* entities of the table before the call, ret the number of entities of the
\* range the table held.
SystemRemoveEntityRange ==
    \E r \in ReleasedRanges :
        /\ kind \in { "dense", "stable" }
        /\ RangeIds(r) \subseteq live
        /\ systemRemoveEntityRangeDefined(SystemOfSelf, r)
        /\ Store(systemRemoveEntityRange(SystemOfSelf, r).tables[1].t)
        /\ SystemStore(systemRemoveEntityRange(SystemOfSelf, r).a)
        /\ live' = live \ RangeIds(r)
        /\ written' = Forget(RangeIds(r))
        /\ lastOp' = Op("systemRemoveRange", r.begin, r.end, Len(entities),
                        Cardinality({ e \in RangeIds(r) : exists(Self, e) }))
        /\ UNCHANGED kind

\* System::removeRange(range) on a stable table that does not hold every
\* entity of the range: removeImpl runs on an index that is not one.
SystemRemoveEntityRangeUndefined ==
    \E r \in ReleasedRanges :
        /\ kind \in { "dense", "stable" }
        /\ RangeIds(r) \subseteq live
        /\ ~ systemRemoveEntityRangeDefined(SystemOfSelf, r)
        /\ kind' = "undefined"
        /\ Store(EmptyTable)
        /\ written' = Forget(Entities)
        /\ lastOp' = Op("systemRemoveRange", r.begin, r.end, Len(entities),
                        Cardinality({ e \in RangeIds(r) : exists(Self, e) }))
        /\ UNCHANGED system

NextComponentSystem ==
    \/ SystemAddEntity
    \/ SystemAddEntityRange
    \/ SystemRemoveEntity
    \/ SystemRemoveEntityRange
    \/ SystemRemoveEntityRangeUndefined

SpecComponentSystem == Init /\ [][NextComponentSystem]_vars

(***************************************************************************)
(* The seed scenario of the stable table: the entities 1 .. k are added,   *)
(* each with its own id as component, then entities are removed and the    *)
(* table is packed.                                                        *)
(***************************************************************************)
\* add(1, 1); ...; add(k, k) on t.
RECURSIVE addFirst(_, _)
addFirst(t, k) ==
    IF k = 0 THEN t ELSE stableAddImpl(addFirst(t, k - 1), k, k)

ScenarioInit ==
    /\ kind = "stable"
    /\ \E k \in 1 .. ScenarioEntities :
        /\ indexSet = addFirst(EmptyTable, k).indexSet
        /\ indexPages = addFirst(EmptyTable, k).indexPages
        /\ entities = addFirst(EmptyTable, k).entities
        /\ componentPages = addFirst(EmptyTable, k).componentPages
        /\ lastOp = Op("add", k, k, k - 1, 0)
    /\ components = << >>
    /\ tombstones = << >>
    /\ written = [e \in Entities |-> 0]
    /\ systemLastEntity = 0
    /\ freeEntities = << >>
    /\ live = {}

ScenarioRemove ==
    \E e \in 1 .. ScenarioEntities :
        /\ exists(Self, e)
        /\ Store(stableRemove(Self, e))
        /\ lastOp' = Op("remove", e, SparseAt(Self, e), Len(entities), 0)
        /\ UNCHANGED << kind, written, system >>

ScenarioPack ==
    /\ tombstones # << >>
    /\ Store(pack(Self))
    /\ lastOp' = Op("pack", 0, Len(packMoves(Self).moveIndexes), Len(tombstones), 0)
    /\ UNCHANGED << kind, written, system >>

ScenarioNext == ScenarioRemove \/ ScenarioPack

SpecScenario == ScenarioInit /\ [][ScenarioNext]_vars

(***************************************************************************)
(* Observations used by the properties.                                    *)
(***************************************************************************)
\* The entities of s that are not NullEntity, in the order of s.
Live(s) == SelectSeq(s, LAMBDA x : x # NullEntity)

\* The set of entities held by the sequence s.
Range(s) == { s[i] : i \in 1 .. Len(s) }

\* traverse(callback) of the stable table with a callback on the component
\* that never stops the traversal: the components passed to it, in order.
RECURSIVE traversed(_, _)
traversed(t, index) ==
    IF index = Len(t.entities) THEN << >>
    ELSE (IF At(t.entities, index) = NullEntity THEN << >>
          ELSE << atIndex(t, index) >>) \o traversed(t, index + 1)

\* The stable table after sort, for every outcome of std::sort on the packed
\* entities.
StableSortOutcomes(c) ==
    { stableSort(pack(Self), sorted).t :
        sorted \in StdSort(pack(Self).entities, stableGetAll(pack(Self)), c) }

\* The positions of the dense table after sort, for every outcome of std::sort.
SortOutcomes(c) == { sort(Self, sorted).t : sorted \in StdSort(entities, getAll(Self), c) }

(***************************************************************************)
(* Properties.                                                             *)
(***************************************************************************)
\* C1: in every state of a dense table reached by add, tryAdd, addRange,
\* remove, tryRemove, removeRange, extract, sort, clear and release calls whose
\* preconditions hold, entities and components have the same length, which is
\* count(), entities holds no duplicate, and the sparse index maps
\* entities[i] to i for every position i.
DenseTableInvariant ==
    kind = "dense" =>
        /\ Len(entities) = Len(components)
        /\ count(Self) = Len(components)
        /\ \A i, j \in 1 .. Len(entities) : i # j => entities[i] # entities[j]
        /\ \A i \in 0 .. (Len(entities) - 1) :
                getUnstableIndex(Self, At(entities, i)) = i

\* A dense remove has moved the last entity into the hole of the removed one.
DenseSwapRemoveDone ==
    /\ kind = "dense"
    /\ lastOp.op = "remove"
    /\ lastOp.x < Len(entities)
    /\ Len(entities) >= 2

\* C2: for every entity e of a table (dense or stable), get(e) is the value
\* last written for e by add or tryAdd, whatever was removed in between.
GetReturnsLastWritten ==
    \A e \in Entities :
        exists(Self, e) =>
            /\ written[e] \in Values
            /\ kind = "dense" => get(Self, e) = written[e]
            /\ kind = "stable" => stableGet(Self, e) = written[e]

\* A dense tryRemove has swapped the last entity into the hole and the entity
\* that was moved holds a value different from the one that is next to it.
SwapKeptValues ==
    /\ kind = "dense"
    /\ lastOp.op = "tryRemove"
    /\ lastOp.ret = 1
    /\ lastOp.x < Len(entities)
    /\ Len(entities) >= 2
    /\ \E i, j \in 1 .. Len(components) : components[i] # components[j]

\* C3: in every state of a stable table reached by add, tryAdd, addRange,
\* remove, tryRemove, removeRange, extract, pack and sort on entities other
\* than NullEntity, count() is the number of entries of entities that are not
\* NullEntity, the number of tombstones is entities.len() - count(), and the
\* sparse index maps every live entities[i] to i.
StableTableInvariant ==
    kind = "stable" =>
        /\ stableCount(Self) = Len(Live(entities))
        /\ Len(tombstones) = Len(entities) - stableCount(Self)
        /\ \A i \in 0 .. (Len(entities) - 1) :
                At(entities, i) # NullEntity =>
                    getUnstableIndex(Self, At(entities, i)) = i

\* A stable remove has left a tombstone below a live slot.
StableHoleBelowLive ==
    /\ kind = "stable"
    /\ lastOp.op = "remove"
    /\ \E i, j \in 1 .. Len(entities) :
            i < j /\ entities[i] = NullEntity /\ entities[j] # NullEntity

StableAddressStability ==
    [][ (kind = "stable" /\ lastOp'.op \notin { "pack", "sort" }) =>
            /\ Len(componentPages') >= Len(componentPages)
            /\ \A e \in Entities :
                (exists(Self, e) /\ Find(entities', e) # Len(entities')) =>
                    indexSet'[e] = indexSet[e] ]_vars

\* A stable add has filled a hole that lies below a live entity added earlier.
HoleFilledBelowLive ==
    /\ kind = "stable"
    /\ lastOp.op = "add"
    /\ lastOp.ret = 1
    /\ \E i \in 0 .. (Len(entities) - 1) :
            i > lastOp.n /\ At(entities, i) # NullEntity

\* C6: in every state of a stable table, pack() leaves no tombstone and no
\* NullEntity in entities, entities.len() is count(), count() is what it was
\* before, and a table without tombstone is left as it is.
PackPostcondition ==
    kind = "stable" =>
        /\ pack(Self).tombstones = << >>
        /\ NullEntity \notin Range(pack(Self).entities)
        /\ Len(pack(Self).entities) = stableCount(pack(Self))
        /\ stableCount(pack(Self)) = stableCount(Self)
        /\ tombstones = << >> => pack(Self) = Self

\* pack() has run on a table with tombstones and live entities.
PackedWithTombstones ==
    /\ kind = "stable"
    /\ lastOp.op = "pack"
    /\ lastOp.n > 0
    /\ lastOp.x > 0
    /\ entities # << >>

\* The table of the seed scenario: 1 .. 5 added, 2 and 4 removed.
ScenarioTable == entities = << 1, NullEntity, 3, NullEntity, 5 >>

\* C7, as claimed: pack() keeps the relative order of the live entities;
\* after adding 1 .. 5 and removing 2 and 4, pack() yields entities
\* [1, 3, 5] and the traversal yields the components of 1, 3, 5 in that order.
PackKeepsRelativeOrder ==
    ScenarioTable =>
        /\ pack(Self).entities = << 1, 3, 5 >>
        /\ traversed(pack(Self), 0) = << 1, 3, 5 >>

\* C7, amended: pack() moves the live entities of the tail into the holes
\* and keeps the slot of every live entity below the new length; after adding
\* 1 .. 5 and removing 2 and 4, pack() yields entities [1, 5, 3] and the
\* traversal yields the components of 1, 5, 3 in that order.
PackFillsHolesFromTail ==
    /\ ScenarioTable =>
        /\ pack(Self).entities = << 1, 5, 3 >>
        /\ traversed(pack(Self), 0) = << 1, 5, 3 >>
    /\ \A i \in 1 .. Len(pack(Self).entities) :
        /\ entities[i] # NullEntity => pack(Self).entities[i] = entities[i]
        /\ entities[i] = NullEntity =>
                \E j \in (Len(pack(Self).entities) + 1) .. Len(entities) :
                    pack(Self).entities[i] = entities[j]

\* pack() has produced [1, 5, 3] with the components of 1, 5 and 3.
ScenarioPacked ==
    /\ lastOp.op = "pack"
    /\ lastOp.n = 2
    /\ entities = << 1, 5, 3 >>
    /\ traversed(Self, 0) = << 1, 5, 3 >>

\* C8: in every state of a stable table, pack() keeps the set of entities of
\* the table and the value get(e) of each of them.
PackPreservesContent ==
    kind = "stable" =>
        \A e \in Entities :
            /\ exists(pack(Self), e) <=> exists(Self, e)
            /\ exists(Self, e) => stableGet(pack(Self), e) = stableGet(Self, e)

\* pack() has moved a component that an earlier move of the same pack() had
\* moved already.
PackCascaded ==
    /\ kind = "stable"
    /\ lastOp.op = "pack"
    /\ lastOp.ret = 1
    /\ entities # << >>

\* C9: in every state of a dense table and for every compare functor, sort
\* leaves entities ordered under the functor, with the same entities, and the
\* sparse index maps entities[i] to i again.
DenseSortOrdersEntities ==
    kind = "dense" =>
        \A c \in Comparators : \A t \in SortOutcomes(c) :
            /\ \A i, j \in 1 .. Len(t.entities) :
                    i < j => ~ compareFunc(getAll(t), c, t.entities[j], t.entities[i])
            /\ Len(t.entities) = Len(entities)
            /\ Range(t.entities) = Range(entities)
            /\ \A i \in 0 .. (Len(t.entities) - 1) :
                    getUnstableIndex(t, At(t.entities, i)) = i

\* A dense sort has patched a cycle of three positions.
DenseSortChasedCycle ==
    /\ kind = "dense"
    /\ lastOp.op = "sort"
    /\ lastOp.n >= 3
    /\ Len(entities) >= 3

\* C10: in every state of a dense table and for every compare functor, sort
\* keeps get(e) of every entity e and the component of e sits at the position
\* of e; after sorting by component value the components are in
\* non-decreasing order, strictly increasing when they are pairwise different.
DenseSortKeepsComponents ==
    kind = "dense" =>
        \A c \in Comparators : \A t \in SortOutcomes(c) :
            /\ Len(t.components) = Len(components)
            /\ \A e \in Entities :
                exists(Self, e) =>
                    /\ get(t, e) = get(Self, e)
                    /\ At(t.components, Find(t.entities, e)) = get(Self, e)
            /\ c = "valueLess" =>
                \A i, j \in 1 .. Len(t.components) :
                    i < j =>
                        /\ t.components[i] <= t.components[j]
                        /\ (\A k, l \in 1 .. Len(components) :
                                k # l => components[k] # components[l])
                            => t.components[i] < t.components[j]

\* A dense sort by component value has exchanged components and left them
\* strictly increasing.
DenseSortedByValue ==
    /\ kind = "dense"
    /\ lastOp.op = "sort"
    /\ lastOp.e = 2
    /\ lastOp.n >= 2
    /\ Len(components) >= 2
    /\ \A i, j \in 1 .. Len(components) : i < j => components[i] < components[j]

\* C11: in every state of a stable table (with or without tombstones) and for
\* every compare functor, sort leaves no tombstone, entities holds exactly the
\* live entities ordered under the functor, the sparse index maps entities[i]
\* to i and get(e) is what it was for every live entity e.
StableSortPacksAndOrders ==
    kind = "stable" =>
        \A c \in Comparators : \A t \in StableSortOutcomes(c) :
            /\ t.tombstones = << >>
            /\ Range(t.entities) = Range(entities) \ {NullEntity}
            /\ Len(t.entities) = Len(Live(entities))
            /\ \A i, j \in 1 .. Len(t.entities) :
                    i < j => ~ compareFunc(stableGetAll(t), c,
                                           t.entities[j], t.entities[i])
            /\ \A i \in 0 .. (Len(t.entities) - 1) :
                    getUnstableIndex(t, At(t.entities, i)) = i
            /\ \A e \in Entities :
                    exists(Self, e) => stableGet(t, e) = stableGet(Self, e)

\* A stable sort has packed a tombstone and then exchanged components.
StableSortPackedFirst ==
    /\ kind = "stable"
    /\ lastOp.op = "sort"
    /\ lastOp.x > 0
    /\ lastOp.n >= 2
    /\ Len(entities) >= 2

\* C12: in every state of a table (dense or stable) and for every absent
\* entity e and value v, add(e, v) followed by extract(e) returns v, leaves e
\* absent and count() as before the add, and keeps every other entity
\* present with its value.
AddExtractRoundTrip ==
    \A e \in Entities, v \in Values :
        ~ exists(Self, e) =>
            /\ kind = "dense" =>
                LET added == addImpl(Self, e, v)
                    after == extract(added, e)
                IN  /\ extractValue(added, e) = v
                    /\ ~ exists(after, e)
                    /\ count(after) = count(Self)
                    /\ \A f \in Entities :
                        exists(Self, f) =>
                            exists(after, f) /\ get(after, f) = get(Self, f)
            /\ kind = "stable" =>
                LET added == stableAddImpl(Self, e, v)
                    after == stableExtract(added, e)
                IN  /\ stableExtractValue(added, e) = v
                    /\ ~ exists(after, e)
                    /\ stableCount(after) = stableCount(Self)
                    /\ \A f \in Entities :
                        exists(Self, f) =>
                            exists(after, f) /\ stableGet(after, f) = stableGet(Self, f)

\* extract has returned the value of the entity of the last slot, the one
\* added last, and the table still holds another entity.
ExtractedLastAdded ==
    /\ lastOp.op = "extract"
    /\ lastOp.ret \in Values
    /\ lastOp.x = lastOp.n - 1
    /\ ~ exists(Self, lastOp.e)
    /\ \E f \in Entities : exists(Self, f)

\* C13: in every state of a table (dense or stable) and for every entity e
\* and value, tryAdd(e, value) on a present e overwrites the component in
\* place (count() and the position or slot of e unchanged, get(e) = value) and
\* on an absent e does exactly what add(e, value) does (count() grows by one,
\* e is present).
TryAddOverwritesOrAdds ==
    \A e \in Entities, v \in Values :
        /\ kind = "dense" =>
            LET t == tryAdd(Self, e, v)
            IN  /\ exists(Self, e) =>
                    /\ count(t) = count(Self)
                    /\ t.entities = entities
                    /\ getUnstableIndex(t, e) = getUnstableIndex(Self, e)
                    /\ get(t, e) = v
                /\ ~ exists(Self, e) =>
                    /\ t = add(Self, e, v)
                    /\ count(t) = count(Self) + 1
                    /\ exists(t, e)
        /\ kind = "stable" =>
            LET t == stableTryAdd(Self, e, v)
            IN  /\ exists(Self, e) =>
                    /\ stableCount(t) = stableCount(Self)
                    /\ t.entities = entities
                    /\ getUnstableIndex(t, e) = getUnstableIndex(Self, e)
                    /\ stableGet(t, e) = v
                /\ ~ exists(Self, e) =>
                    /\ t = stableAdd(Self, e, v)
                    /\ stableCount(t) = stableCount(Self) + 1
                    /\ exists(t, e)

\* tryAdd has overwritten the component of an entity that was present, next
\* to another entity that holds a different value.
TryAddOverwrote ==
    /\ kind = "dense"
    /\ lastOp.op = "tryAdd"
    /\ lastOp.ret = 1
    /\ Len(entities) = lastOp.n
    /\ get(Self, lastOp.e) = lastOp.x
    /\ \E f \in Entities : exists(Self, f) /\ get(Self, f) # lastOp.x

DenseRemoveIsSwapRemove ==
    /\ remove(addImpl(addImpl(addImpl(EmptyTable, 1, 1), 2, 2), 3, 3), 1).entities
            = << 3, 2 >>
    /\ kind = "dense" =>
        \A e \in Entities :
            exists(Self, e) =>
                LET idx == getUnstableIndex(Self, e)
                    n == count(Self)
                    t == remove(Self, e)
                IN  /\ Len(t.entities) = n - 1
                    /\ Len(t.components) = n - 1
                    /\ idx < n - 1 =>
                        /\ At(t.entities, idx) = At(entities, n - 1)
                        /\ At(t.components, idx) = At(components, n - 1)
                        /\ \A i \in 0 .. (n - 2) :
                            i # idx =>
                                /\ At(t.entities, i) = At(entities, i)
                                /\ At(t.components, i) = At(components, i)
                    /\ idx = n - 1 =>
                        /\ t.entities = Pop(entities)
                        /\ t.components = Pop(components)

\* remove has taken the first of three entities: the third sits at position 0
\* and the second kept position 1.
RemovedFirstOfThree ==
    /\ kind = "dense"
    /\ lastOp.op = "remove"
    /\ lastOp.x = 0
    /\ lastOp.n = 3
    /\ Len(entities) = 2
    /\ components[1] # components[2]

\* C16: in every state of a dense table and for every range r, removeRange(r)
\* removes exactly the present entities e with r.begin <= e < r.end wherever
\* they sit: none of them exists afterwards, every other entity is still
\* present with the same component value, count() has decreased by the number
\* of removed entities, and the table is unchanged when no present entity lies
\* in r.
DenseRemoveRangeRemovesExactly ==
    kind = "dense" =>
        \A r \in EntityRanges :
            LET t == removeRange(Self, r)
                removed == { e \in Entities :
                                exists(Self, e) /\ e >= r.begin /\ e < r.end }
            IN  /\ \A e \in removed : ~ exists(t, e)
                /\ \A e \in Entities \ removed :
                        /\ exists(t, e) <=> exists(Self, e)
                        /\ exists(Self, e) => get(t, e) = get(Self, e)
                /\ count(t) = count(Self) - Cardinality(removed)
                /\ Len(t.components) = count(t)
                /\ removed = {} => t = Self

\* removeRange has removed the entities of the first two positions of three:
\* the entity of the last position was moved twice.
RemoveRangeCascaded ==
    /\ kind = "dense"
    /\ lastOp.op = "removeRange"
    /\ lastOp.n = 3
    /\ lastOp.ret = 2
    /\ Len(entities) = 1

\* C17: in every state of a table (dense or stable) and for every range r none
\* of whose entities is present, addRange(r, value) appends the entities of r
\* in increasing order at the positions that follow the previous last one,
\* each with a copy of value, raises count() by r.end - r.begin and keeps
\* every entity that was present at its position with its value; the stable
\* table appends even when it holds tombstones, which it keeps.
AddRangeAppends ==
    \A r \in EntityRanges, v \in Values :
        (\A e \in r.begin .. (r.end - 1) : ~ exists(Self, e)) =>
            LET n == Len(entities)
                cnt == r.end - r.begin
            IN  /\ kind = "dense" =>
                    LET t == addRange(Self, r, v)
                    IN  /\ count(t) = count(Self) + cnt
                        /\ Len(t.entities) = n + cnt
                        /\ \A k \in 0 .. (cnt - 1) :
                            /\ At(t.entities, n + k) = r.begin + k
                            /\ getUnstableIndex(t, r.begin + k) = n + k
                            /\ get(t, r.begin + k) = v
                        /\ \A i \in 0 .. (n - 1) :
                            /\ At(t.entities, i) = At(entities, i)
                            /\ getUnstableIndex(t, At(entities, i)) = i
                            /\ get(t, At(entities, i)) = get(Self, At(entities, i))
                /\ kind = "stable" =>
                    LET t == stableAddRange(Self, r, v)
                    IN  /\ stableCount(t) = stableCount(Self) + cnt
                        /\ Len(t.entities) = n + cnt
                        /\ t.tombstones = tombstones
                        /\ \A k \in 0 .. (cnt - 1) :
                            /\ At(t.entities, n + k) = r.begin + k
                            /\ getUnstableIndex(t, r.begin + k) = n + k
                            /\ stableGet(t, r.begin + k) = v
                        /\ \A i \in 0 .. (n - 1) :
                            /\ At(t.entities, i) = At(entities, i)
                            /\ At(entities, i) # NullEntity =>
                                /\ getUnstableIndex(t, At(entities, i)) = i
                                /\ stableGet(t, At(entities, i))
                                        = stableGet(Self, At(entities, i))

\* addRange has appended two entities to a stable table that holds a
\* tombstone.
AddRangeAppendedPastTombstone ==
    /\ kind = "stable"
    /\ lastOp.op = "addRange"
    /\ lastOp.x - lastOp.e = 2
    /\ tombstones # << >>
    /\ Len(entities) = lastOp.n + 2

\* C18: after clear() or release() called in any state of a dense or stable
\* table, a stable table that holds tombstones included, count() is 0 and
\* exists(e) is false for every entity e.
ClearedTableIsEmpty ==
    lastOp.op \in { "clear", "release" } =>
        /\ kind = "dense" => count(Self) = 0
        /\ kind = "stable" => stableCount(Self) = 0
        /\ \A e \in Entities : ~ exists(Self, e)

\* C19: in every state of a table (dense or stable, a stable table already
\* cleared or released included), clear() called twice leaves the table
\* clear() called once leaves, and release() called twice leaves the table
\* release() called once leaves.
CleanUpIsIdempotent ==
    /\ kind = "dense" =>
        /\ clear(clear(Self)) = clear(Self)
        /\ release(release(Self)) = release(Self)
    /\ kind = "stable" =>
        /\ stableClear(stableClear(Self)) = stableClear(Self)
        /\ stableRelease(stableRelease(Self)) = stableRelease(Self)

\* clear() has run on a stable table that an earlier clear() or release() had
\* emptied while it held a tombstone, and has left it as it was.
ClearedTwice ==
    /\ kind = "stable"
    /\ lastOp.op = "clear"
    /\ lastOp.n = 0
    /\ lastOp.x = 1
    /\ Self = stableClear(Self)

\* C20: in every state of a dense table and for every callback, traverse
\* calls the callback in increasing position, each call with the entity and
\* the entity's own component of the position; when the callback returns bool
\* and its k-th call is the first to return false it is called exactly k
\* times, and a callback that returns nothing, or never false, is called once
\* per present entity.
TraverseInOrderUntilFalse ==
    kind = "dense" =>
        \A callback \in Callbacks :
            LET calls == traverse(Self, callback, 0, << >>)
                expected == [i \in 1 .. Len(entities) |->
                                TraverseArgs(callback.variant, entities[i],
                                             get(Self, entities[i]))]
                falseAt == { i \in 1 .. Len(entities) :
                                ReturnsFalse(callback, expected[i]) }
            IN  /\ Len(calls) <= Len(entities)
                /\ \A i \in 1 .. Len(calls) : calls[i] = expected[i]
                /\ falseAt # {} =>
                    \A k \in falseAt :
                        (\A i \in falseAt : k <= i) => Len(calls) = k
                /\ falseAt = {} => Len(calls) = count(Self)

\* traverse has stopped at the second of three entities, whose callback call
\* was the first to return false.
TraverseStoppedEarly ==
    /\ kind = "dense"
    /\ lastOp.op = "traverse"
    /\ lastOp.n = 3
    /\ lastOp.x = 2
    /\ lastOp.ret = 1

\* C21: in every state of a stable table and for every callback, traverse
\* calls the callback for the slots that do not hold NullEntity and for no
\* other slot, in increasing slot index, each live entity once and with its
\* own component, up to the first call that returns false.
StableTraverseSkipsTombstones ==
    kind = "stable" =>
        \A callback \in Callbacks :
            LET calls == stableTraverse(Self, callback, 0, << >>)
                liveSlots == Live(entities)
                expected == [i \in 1 .. Len(liveSlots) |->
                                TraverseArgs(callback.variant, liveSlots[i],
                                             stableGet(Self, liveSlots[i]))]
                falseAt == { i \in 1 .. Len(liveSlots) : ReturnsFalse(callback, expected[i]) }
            IN  /\ Len(calls) <= Len(liveSlots)
                /\ \A i \in 1 .. Len(calls) : calls[i] = expected[i]
                /\ \A i \in 1 .. Len(calls) :
                        callback.variant # "component" => calls[i][1] # NullEntity
                /\ \A i, j \in 1 .. Len(calls) :
                        (callback.variant # "component" /\ i # j)
                            => calls[i][1] # calls[j][1]
                /\ falseAt = {} => Len(calls) = Len(liveSlots)
                /\ \A k \in falseAt :
                        (\A i \in falseAt : k <= i) => Len(calls) = k

\* traverse has skipped the tombstone of the first slot and has called the
\* callback for the two live slots that follow.
TraverseSkippedTombstone ==
    /\ kind = "stable"
    /\ lastOp.op = "traverse"
    /\ lastOp.n = 3
    /\ lastOp.x = 2
    /\ lastOp.ret = 0
    /\ entities[1] = NullEntity

\* C22: in every state of a stable table and for every absent entity e,
\* add(e) with a tombstone list that is not empty places the component in the
\* slot of the tombstone created last, writes e in entities at that slot and
\* keeps entities.len(); with an empty list it appends at slot
\* entities.len(); in both cases the sparse index maps e to the slot.
StableAddChoosesSlot ==
    kind = "stable" =>
        \A e \in Entities, v \in Values :
            ~ exists(Self, e) =>
                LET t == stableAdd(Self, e, v)
                    n == Len(entities)
                    k == Len(tombstones)
                IN  /\ k > 0 =>
                        /\ t.entities = SetAt(entities, tombstones[k], e)
                        /\ t.tombstones = SubSeq(tombstones, 1, k - 1)
                        /\ Len(t.entities) = n
                        /\ getUnstableIndex(t, e) = tombstones[k]
                        /\ atIndex(t, tombstones[k]) = v
                        /\ lastOp.op \in { "remove", "extract" } =>
                                getUnstableIndex(t, e) = lastOp.x
                    /\ k = 0 =>
                        /\ t.entities = Append(entities, e)
                        /\ t.tombstones = << >>
                        /\ getUnstableIndex(t, e) = n
                        /\ atIndex(t, n) = v

\* add has taken slot 2, the tombstone created last, and has left the older
\* tombstone of slot 0.
AddTookNewestTombstone ==
    /\ kind = "stable"
    /\ lastOp.op = "add"
    /\ lastOp.ret = 1
    /\ lastOp.n = 2
    /\ tombstones = << 0 >>
    /\ getUnstableIndex(Self, lastOp.e) = 2

(***************************************************************************)
(* Claims about the entity allocator.                                      *)
(***************************************************************************)
\* The range an addRange or a removeRange recorded in lastOp is about.
OpRange(o) == [ begin |-> o.e, end |-> o.x ]

\* The ids the free range i holds.
FreeIds(i) == RangeIds(freeEntities[i])

\* C23: the allocator never hands out an id that is live: the id add returns
\* and the ids of the range addRange returns are not live when the call is
\* made, the callers releasing live ids only.
NeverIssuesLiveId ==
    [][ /\ (lastOp'.op = "add" => lastOp'.e \notin live)
        /\ (lastOp'.op = "addRange" => RangeIds(OpRange(lastOp')) \cap live = {})
      ]_vars

\* C24: after every allocator operation the free list holds no two adjacent
\* ranges [a, b) and [b, c).
NoAdjacentFreeRanges ==
    \A i, j \in 1 .. Len(freeEntities) :
        i # j => freeEntities[i].end # freeEntities[j].begin

\* C25: after every allocator operation the free list is sorted by begin and
\* its ranges are pairwise non-overlapping and non-empty.
FreeListSortedDisjoint ==
    /\ \A i \in 1 .. (Len(freeEntities) - 1) :
            freeEntities[i].begin < freeEntities[i + 1].begin
    /\ \A i, j \in 1 .. Len(freeEntities) : i # j => FreeIds(i) \cap FreeIds(j) = {}
    /\ \A i \in 1 .. Len(freeEntities) : freeEntities[i].begin # freeEntities[i].end

\* C26: after every allocator operation every id x with 0 < x <= last is
\* either live or in exactly one free range, no free range holds an id
\* greater than last and no live id is greater than last.
IdAccounting ==
    /\ \A x \in 1 .. systemLastEntity :
            LET holders == { i \in 1 .. Len(freeEntities) : x \in FreeIds(i) }
            IN  IF x \in live THEN holders = {} ELSE Cardinality(holders) = 1
    /\ \A i \in 1 .. Len(freeEntities) : \A x \in FreeIds(i) : x <= systemLastEntity
    /\ \A x \in live : x <= systemLastEntity

\* C27: the allocator never issues entity 0: the first add of a new allocator
\* returns 1 and no id or range returned afterwards holds 0.
NeverIssuesZero ==
    /\ (lastOp.op = "add" /\ lastOp.n = 0 /\ lastOp.x = 0 => lastOp.e = 1)
    /\ (lastOp.op = "add" => lastOp.e # 0)
    /\ (lastOp.op = "addRange" => 0 \notin RangeIds(OpRange(lastOp)))

\* C30: id exhaustion is fatal: an add or addRange that is served from
\* _lastEntity returns only when the ids it issues lie above the old
\* _lastEntity and below NULL_ENTITY; no call returns with an id obtained by
\* wrap-around.
ExhaustionIsFatal ==
    [][ (lastOp'.op \in { "add", "addRange" } /\ systemLastEntity' # systemLastEntity)
            => (systemLastEntity < systemLastEntity' /\ systemLastEntity' < NullEntity)
      ]_vars

\* C28: the allocation policy.  add with a non-empty free list returns the
\* begin of the first free range, shrinks that range from the front (drops it
\* when it is left empty) and leaves last unchanged; addRange(n) takes the n
\* front ids of the first free range of size >= n and, when there is none,
\* returns [last + 1, last + 1 + n) and advances last by n.  After add x5,
\* remove(3), remove(4) the next two add return 3 then 4.
AllocationPolicy ==
    [][ /\ (lastOp'.op = "add" /\ freeEntities # << >>) =>
            LET first == freeEntities[1]
            IN  /\ lastOp'.e = first.begin
                /\ systemLastEntity' = systemLastEntity
                /\ IF FreeIds(1) = { first.begin }
                   THEN freeEntities' = Tail(freeEntities)
                   ELSE /\ RangeIds(freeEntities'[1]) = FreeIds(1) \ { first.begin }
                        /\ freeEntities'[1].end = first.end
                        /\ Tail(freeEntities') = Tail(freeEntities)
        /\ lastOp'.op = "addRange" =>
            LET n == lastOp'.ret
                fits == { i \in 1 .. Len(freeEntities) : Cardinality(FreeIds(i)) >= n }
            IN  IF fits # {}
                THEN LET i == CHOOSE k \in fits : \A m \in fits : k <= m
                         taken == { x \in FreeIds(i) : x < freeEntities[i].begin + n }
                     IN  /\ RangeIds(OpRange(lastOp')) = taken
                         /\ Cardinality(taken) = n
                         /\ systemLastEntity' = systemLastEntity
                         /\ IF FreeIds(i) = taken
                            THEN freeEntities' = EraseAt(freeEntities, i)
                            ELSE /\ Len(freeEntities') = Len(freeEntities)
                                 /\ RangeIds(freeEntities'[i]) = FreeIds(i) \ taken
                                 /\ \A k \in 1 .. Len(freeEntities) :
                                        k # i => freeEntities'[k] = freeEntities[k]
                ELSE /\ lastOp'.e = (systemLastEntity + 1) % EntityModulus
                     /\ lastOp'.x = (systemLastEntity + 1 + n) % EntityModulus
                     /\ systemLastEntity' = (systemLastEntity + n) % EntityModulus
                     /\ freeEntities' = freeEntities
        /\ (systemLastEntity = 5 /\ freeEntities = << >> /\ live = 1 .. 5) =>
            LET released == systemRemove(systemRemove(SystemSelf, 3), 4)
                first == systemAdd(released)
                second == systemAdd(first.a)
            IN  first.entity = 3 /\ second.entity = 4
      ]_vars

\* Reachable: after add x5, remove(3), remove(4), the second add has returned
\* 4 and dropped the free range it emptied.
ReusedThreeThenFour ==
    /\ lastOp = Op("add", 4, 1, 5, 0)
    /\ systemLastEntity = 5
    /\ freeEntities = << >>
    /\ live = 1 .. 5

\* C29: releasing the top of the id space only unwinds last: remove(e) with
\* e = last sets last to e - 1 and removeRange(r) with r.end - 1 = last sets
\* last to r.begin - 1; the free list is left as it is.
TopReleaseUnwindsLast ==
    [][ /\ (lastOp'.op = "remove" /\ lastOp'.e = systemLastEntity) =>
                /\ systemLastEntity' = Dec(lastOp'.e)
                /\ freeEntities' = freeEntities
        /\ (lastOp'.op = "removeRange" /\ Dec(lastOp'.x) = systemLastEntity) =>
                /\ systemLastEntity' = Dec(lastOp'.e)
                /\ freeEntities' = freeEntities
      ]_vars

\* Reachable: a range of two ids at the top has been released while a free
\* range ends where it begins; last is unwound and the free range is neither
\* extended nor merged.
TopRangeReleasedBesideFreeRange ==
    /\ lastOp.op = "removeRange"
    /\ lastOp.x = lastOp.n + 1
    /\ lastOp.x = lastOp.e + 2
    /\ systemLastEntity = lastOp.e - 1
    /\ \E i \in 1 .. Len(freeEntities) : freeEntities[i].end = lastOp.e

(***************************************************************************)
(* Claims about the index, the compaction at full width, the life cycle    *)
(* and the sentinel.                                                       *)
(***************************************************************************)
\* C31: getUnstableIndex(e) agrees with exists(e) in every table state: it is
\* NullEntityIndex exactly when e is not in the table and otherwise the
\* position i with entities[i] = e.
UnstableIndexAgreesWithExists ==
    kind \in { "dense", "stable" } =>
        \A e \in Entities :
            getUnstableIndex(Self, e) =
                IF exists(Self, e) THEN Find(entities, e) ELSE NullEntityIndex

\* C32: removeRange of the dense table and pack of the stable table that
\* empty the whole table go through the wrap-around of `last`: when every
\* position is a hole, last = size - 1 is decremented size times to the
\* largest EntityIndex, from = last + 1 wraps to 0, no move is produced and
\* the table ends with no entity and count() = 0.
FullRemovalWrapsAround ==
    /\ kind = "dense" =>
        \A r \in EntityRanges :
            (entities # << >> /\ \A i \in 0 .. (Len(entities) - 1) :
                    At(entities, i) >= r.begin /\ At(entities, i) < r.end) =>
                LET m == removeRangeMoveIndexes(
                            SortDescending(erasedIndexes(entities, r, 0)), 1,
                            Dec(Len(entities)), << >>)
                IN  /\ m.last = EntityModulus - 1
                    /\ Inc(m.last) = 0
                    /\ m.moveIndexes = << >>
                    /\ removeRange(Self, r).entities = << >>
                    /\ removeRange(Self, r).components = << >>
                    /\ count(removeRange(Self, r)) = 0
    /\ (/\ kind = "stable"
        /\ entities # << >>
        /\ Len(tombstones) = Len(entities)
        /\ \A i \in 0 .. (Len(entities) - 1) : At(entities, i) = NullEntity) =>
                /\ packMoves(Self).last = EntityModulus - 1
                /\ Inc(packMoves(Self).last) = 0
                /\ packMoves(Self).moveIndexes = << >>
                /\ pack(Self).entities = << >>
                /\ pack(Self).tombstones = << >>
                /\ stableCount(pack(Self)) = 0

\* Reachable: removeRange has emptied a dense table of two or more entities
\* without a move.
RemoveRangeEmptiedTable ==
    /\ kind = "dense"
    /\ lastOp.op = "removeRange"
    /\ lastOp.n >= 2
    /\ lastOp.ret = 0
    /\ entities = << >>

\* The number of NULL_ENTITY entries of s.
NullEntries(s) == Cardinality({ i \in 1 .. Len(s) : s[i] = NullEntity })

\* C33: removeRange(r) of the stable table, every entity of r being present,
\* removes exactly the entities of r: count() decreases by r.end - r.begin,
\* the NULL_ENTITY entries of entities increase by r.end - r.begin, the
\* length of entities is unchanged and every entity outside r keeps its slot
\* and its value.
StableRemoveRangeRemovesExactly ==
    kind = "stable" =>
        \A r \in EntityRanges :
            (\A e \in r.begin .. (r.end - 1) : exists(Self, e)) =>
                LET t == stableRemoveRange(Self, r)
                    size == r.end - r.begin
                IN  /\ stableCount(t) = stableCount(Self) - size
                    /\ NullEntries(t.entities) = NullEntries(entities) + size
                    /\ Len(t.entities) = Len(entities)
                    /\ \A e \in r.begin .. (r.end - 1) : ~ exists(t, e)
                    /\ \A e \in Entities \ (r.begin .. (r.end - 1)) :
                        exists(Self, e) =>
                            /\ exists(t, e)
                            /\ Find(t.entities, e) = Find(entities, e)
                            /\ getUnstableIndex(t, e) = getUnstableIndex(Self, e)
                            /\ stableGet(t, e) = stableGet(Self, e)

\* Reachable: removeRange has removed two entities of a stable table and a
\* third entity is still in it.
StableRangeRemovedBesideLive ==
    /\ kind = "stable"
    /\ lastOp.op = "removeRange"
    /\ lastOp.x = lastOp.e + 2
    /\ Len(tombstones) >= 2
    /\ \E e \in Entities : exists(Self, e)

\* The orders std::sort can leave the entities s in, whatever the comparator:
\* the permutations of s.
Orders(s) ==
    { p \in [1 .. Len(s) -> Range(s)] :
        \A i, j \in 1 .. Len(s) : i # j => p[i] # p[j] }

\* The chain the patch follows in table t once its entities are `sorted`:
\* position i leads to indices[sorted[i]].
PatchChain(t, sorted) ==
    [i \in 0 .. (Len(sorted) - 1) |-> SparseAt(t, At(sorted, i))]

\* The position reached from i after k links of the chain p.
RECURSIVE Follow(_, _, _)
Follow(p, i, k) == IF k = 0 THEN i ELSE Follow(p, p[i], k - 1)

\* The number of cycles of the chain p that hold more than one position.
NonTrivialCycles(p) ==
    Cardinality({ i \in DOMAIN p :
        p[i] # i /\ \A k \in 1 .. Cardinality(DOMAIN p) : Follow(p, i, k) >= i })

\* C34: the cycle-chase patch loop of sort terminates for every permutation of
\* the entities: the inner loops end (the iterations stay below PatchFuel, at
\* which a loop is given up) and their total number is at most the number of
\* entities plus the number of non-trivial cycles.
SortPatchTerminates ==
    /\ kind = "dense" =>
        \A sorted \in Orders(entities) :
            /\ sort(Self, sorted).steps < PatchFuel(Self)
            /\ sort(Self, sorted).steps
                    <= Len(entities) + NonTrivialCycles(PatchChain(Self, sorted))
    /\ kind = "stable" =>
        \A sorted \in Orders(pack(Self).entities) :
            /\ stableSort(pack(Self), sorted).steps < PatchFuel(pack(Self))
            /\ stableSort(pack(Self), sorted).steps
                    <= Len(pack(Self).entities)
                        + NonTrivialCycles(PatchChain(pack(Self), sorted))

\* Reachable: sort of a stable table has chased a cycle through its three
\* slots.
StableSortChasedThreeCycle ==
    /\ kind = "stable"
    /\ lastOp.op = "sort"
    /\ lastOp.n >= 3
    /\ Len(entities) = 3

\* The slots of t whose cell holds a live component.
LiveCells(t) ==
    { s \in 0 .. (Len(t.componentPages) * ComponentPageSize - 1) :
        atIndex(t, s) # Dead }

\* The slots of t that hold an entity: the ones destroyComponents destroys
\* and remove, extract, get, traverse and sort address.
LiveSlots(t) ==
    { s \in 0 .. (Len(t.entities) - 1) : At(t.entities, s) # NullEntity }

\* pack, "Erase components" from move k on: every move constructs in a cell
\* that holds no live component, from a cell that holds one, and destroys the
\* latter.
RECURSIVE packMovesRespectLifetime(_, _, _)
packMovesRespectLifetime(t, moves, k) ==
    \/ k > Len(moves)
    \/ /\ atIndex(t, moves[k].begin) # Dead
       /\ atIndex(t, moves[k].end) = Dead
       /\ packMovesRespectLifetime(
            setCell(setCell(t, moves[k].end, atIndex(t, moves[k].begin)),
                    moves[k].begin, Dead),
            moves, k + 1)

\* C35: component lifetime in the stable table, clear and release included:
\* the cells that hold a live component are exactly the slots that hold an
\* entity (so every read, move and destruction addresses a live component
\* and clear, release and the destructor destroy every live component once),
\* add and tryAdd construct in a cell that holds no live component, and so
\* does every move of pack.
ComponentLifetime ==
    kind = "stable" =>
        /\ LiveCells(Self) = LiveSlots(Self)
        /\ (tombstones # << >> /\ addDefined(Self)) =>
                atIndex(Self, stableAddIndex(Self)) = Dead
        /\ (tombstones # << >> /\ packDefined(Self)) =>
                packMovesRespectLifetime(Self, packMoves(Self).moveIndexes, 1)

\* Every call of the sequence calls respects the precondition of the sparse
\* index.
Respected(calls) == \A k \in 1 .. Len(calls) : IndexCallRespected(calls[k])

\* C36: every call a table operation makes to the sparse index respects the
\* preconditions of the sparse index: remove(key) and extract(key) are issued
\* for a key whose slot is non-null, add(key, value) for a key whose slot is
\* null, the operations being called within their own preconditions.
IndexCallsRespectPreconditions ==
    /\ kind = "dense" =>
        /\ \A e \in Entities :
            /\ ~ exists(Self, e) => Respected(addImplIndexCalls(Self, e))
            /\ Respected(tryAddIndexCalls(Self, e))
            /\ Respected(tryRemoveIndexCalls(Self, e))
            /\ exists(Self, e) => Respected(extractIndexCalls(Self, e))
            /\ exists(Self, e) => Respected(removeIndexCalls(Self, e))
        /\ \A r \in EntityRanges :
            /\ Respected(removeRangeIndexCalls(Self, r))
            /\ (\A e \in r.begin .. (r.end - 1) : ~ exists(Self, e)) =>
                    Respected(addRangeIndexCalls(Self, r))
    /\ kind = "stable" =>
        /\ \A e \in Entities :
            /\ ~ exists(Self, e) => Respected(stableAddImplIndexCalls(Self, e))
            /\ Respected(stableTryAddIndexCalls(Self, e))
            /\ Respected(stableTryRemoveIndexCalls(Self, e))
            /\ exists(Self, e) => Respected(stableExtractIndexCalls(Self, e))
            /\ exists(Self, e) => Respected(stableRemoveIndexCalls(Self, e))
        /\ \A r \in EntityRanges :
            /\ (\A e \in r.begin .. (r.end - 1) : exists(Self, e)) =>
                    Respected(stableRemoveRangeIndexCalls(Self, r))
            /\ (\A e \in r.begin .. (r.end - 1) : ~ exists(Self, e)) =>
                    Respected(stableAddRangeIndexCalls(Self, r))

\* What a read past the end of entities may yield: NULL_ENTITY or an entity.
BeyondValues == { NullEntity, 0 }

\* C37: incrementing an iterator of the stable table positioned at slot i
\* moves it to the smallest live slot j > i, or to entities.len() when there
\* is none, and never reads entities at an index >= entities.len();
\* decrementing moves it to the greatest live slot j < i.
IteratorStepsToNextLiveSlot ==
    kind = "stable" =>
        /\ \A i \in LiveSlots(Self), beyond \in BeyondValues :
            LET r == iteratorIncrement(Self, i, beyond, << >>)
                above == { j \in LiveSlots(Self) : j > i }
            IN  /\ r.index = IF above = {} THEN Len(entities)
                             ELSE CHOOSE j \in above : \A k \in above : j <= k
                /\ \A k \in 1 .. Len(r.reads) : r.reads[k] < Len(entities)
        /\ \A i \in LiveSlots(Self) \cup { Len(entities) } :
            LET r == iteratorDecrement(Self, i, << >>)
                below == { j \in LiveSlots(Self) : j < i }
            IN  /\ below # {} =>
                    r.index = CHOOSE j \in below : \A k \in below : j >= k
                /\ \A k \in 1 .. Len(r.reads) : r.reads[k] < Len(entities)

\* C38: clear() and release() of a stable table leave the tombstone list
\* empty: the list never holds an index >= entities.len() nor a duplicate,
\* and the first add(e) after clear() or release() stores e at slot 0 of the
\* empty entities list instead of writing entities at a stale slot index.
ClearEmptiesTombstones ==
    kind = "stable" =>
        /\ \A k \in 1 .. Len(tombstones) :
            /\ tombstones[k] < Len(entities)
            /\ \A m \in 1 .. Len(tombstones) : m # k => tombstones[m] # tombstones[k]
        /\ lastOp.op \in { "clear", "release" } =>
            /\ tombstones = << >>
            /\ \A e \in Entities, v \in Values :
                /\ addDefined(Self)
                /\ stableAddIndex(Self) = 0
                /\ stableAdd(Self, e, v).entities = << e >>

\* C39: NULL_ENTITY is never treated as a present entity: on a stable table
\* that holds tombstones findIndex(NULL_ENTITY) is NullEntityIndex, so that
\* tryAdd(NULL_ENTITY, v) does not take the branch of an existing component
\* on a tombstone slot, and tryRemove(NULL_ENTITY) returns false and changes
\* nothing.
NullEntityIsNeverPresent ==
    (kind = "stable" /\ tombstones # << >>) =>
        /\ findIndex(Self, NullEntity) = NullEntityIndex
        /\ ~ tryRemoveResult(Self, NullEntity)
        /\ stableTryRemove(Self, NullEntity) = Self

(***************************************************************************)
(* Claims about System::remove and System::removeRange.                    *)
(***************************************************************************)
\* The postcondition of a removal of the entities S that takes the system
\* from w to v: no table holds an entity of S, the tables that held none are
\* unchanged and the allocator has released the ids of S, each exactly once.
Detached(w, v, S, released) ==
    /\ \A i \in 1 .. Len(w.tables) :
        /\ \A e \in S : ~ exists(v.tables[i].t, e)
        /\ (\A e \in S : ~ exists(w.tables[i].t, e)) => v.tables[i] = w.tables[i]
    /\ v.a = released

\* C40: System::remove(entity) detaches the entity from every component table
\* and then releases its id: afterwards exists(entity) is false in every
\* table, the tables that did not hold the entity are unchanged and the id
\* is released exactly once; System::removeRange(range) does the same for
\* every entity of the range, whether or not each table holds every entity
\* of the range.
SystemRemoveDetachesThenReleases ==
    kind \in { "dense", "stable" } =>
        /\ \A e \in live :
            Detached(SystemOfSelf, systemRemoveEntity(SystemOfSelf, e), {e},
                     systemRemove(SystemSelf, e))
        /\ \A r \in ReleasedRanges :
            RangeIds(r) \subseteq live =>
                /\ systemRemoveEntityRangeDefined(SystemOfSelf, r)
                /\ Detached(SystemOfSelf, systemRemoveEntityRange(SystemOfSelf, r),
                            RangeIds(r), systemRemoveRange(SystemSelf, r))

====
